---- MODULE Spec2Model ----
(***************************************************************************)
(* Model of the DE-DETR training criterion and post-processor              *)
(* (models/detr.py): SetCriterion.forward with its target augmentation,    *)
(* matcher calls, distributed normaliser and loss bundle; the dump files   *)
(* written by DETR.store_results and SetCriterion.store_results; and       *)
(* PostProcess.forward with its duplicate suppression.                     *)
(*                                                                         *)
(* Conventions.  Python sequences are TLA+ sequences; Python's 0-based     *)
(* index k is position k + 1.  Indices that the program itself stores      *)
(* (slot and target indices of an assignment, sample_idx, keep_) keep      *)
(* their 0-based Python values.  An optional value is None (the empty      *)
(* sequence) or Some(x).  A rational is a pair <<numerator, denominator>>. *)
(* Box coordinates are integers on a grid; scores are integers in units of *)
(* 1/100000.                                                               *)
(***************************************************************************)
EXTENDS Integers, Sequences, FiniteSets, TLC

----------------------------------------------------------------------------
(* Bounds of the model *)

\* most target instances of one image as the data loader yields it
MaxInst == 2
\* largest fixed repeat count (--repeat_label) explored
MaxRepeat == 2
\* largest number of query slots explored by the criterion
MaxQ == 4
\* most auxiliary decoder layers (dec_layers - 1) explored
MaxAux == 2
\* most processes of the data-parallel group
MaxProcs == 2
\* most slots whose predictions PostProcess is given one by one
MaxSlots == 3
\* most iterations of the loop followed for one process
MaxSteps == 2
\* write() calls one json.dump and its close are followed through: the
\* text leaves the file object whenever its buffer is full, and at close
MaxWrites == 2

----------------------------------------------------------------------------
(* Generic helpers *)

None == <<>>
Some(x) == <<x>>
Val(o) == o[1]

Min(a, b) == IF a <= b THEN a ELSE b
Max(a, b) == IF a >= b THEN a ELSE b
Abs(a) == IF a >= 0 THEN a ELSE -a

Range(s) == {s[k] : k \in 1..Len(s)}

\* dict.update: the entries of e replace or extend those of d
Update(d, e) ==
    [k \in DOMAIN d \cup DOMAIN e |-> IF k \in DOMAIN e THEN e[k] ELSE d[k]]

RECURSIVE SumSeq(_)
SumSeq(s) == IF s = <<>> THEN 0 ELSE Head(s) + SumSeq(Tail(s))

RECURSIVE Concat(_)
\* torch.cat of a list of 1-d tensors
Concat(ss) == IF ss = <<>> THEN <<>> ELSE Head(ss) \o Concat(Tail(ss))

\* all sequences over S of length exactly n
SeqsOfLen(S, n) == [1..n -> S]

\* all injective sequences over S of length n
InjSeqs(S, n) == {s \in [1..n -> S] : \A a, b \in 1..n : a # b => s[a] # s[b]}

\* Tensor.repeat(r) on the first dimension: the rows, r times over
TensorRepeat(s, r) == [k \in 1..(Len(s) * r) |-> s[((k - 1) % Len(s)) + 1]]

\* tensor[idx] for a tensor of 0-based indices idx
Gather(s, idx) == [k \in 1..Len(idx) |-> s[idx[k] + 1]]

\* the permutations torch.randperm(n) can return (0-based values)
RandPerms(n) == InjSeqs(0..(n - 1), n)

----------------------------------------------------------------------------
(* Target augmentation, SetCriterion.forward lines 385-412 *)

\* int(self.repeat_ratio * num_queries); the ratio is a pair <<num, den>>
\* with den a power of two, so the float product is exact
NumFore(ratio, num_queries) == (ratio[1] * num_queries) \div ratio[2]

\* the 'repeat' flags: zeros(num_inst * repeat_time), then [:num_inst] = 1
RepeatFlags(num_inst, repeat_time) ==
    [k \in 1..(num_inst * repeat_time) |-> IF k <= num_inst THEN 1 ELSE 0]

\* the per-instance keys of a target dict that the augmentation rewrites
InstKeys == {"boxes", "labels", "area", "iscrowd"}

\* variant of AugmentField that leaves out the sampled rows
AugmentFieldRepeatOnly(field, repeat_time, repeat_rand, perm) == TensorRepeat(field, repeat_time)

\* one field after .repeat(repeat_time) and, under a ratio, the cat with
\* field[sample_idx]
AugmentField(field, repeat_time, repeat_rand, perm) ==
    LET rep == TensorRepeat(field, repeat_time)
    IN  IF repeat_rand # None
        THEN rep \o Gather(rep, SubSeq(perm, 1, Val(repeat_rand)))
        ELSE rep

\* variant of AugmentSkips that lets an image with exactly num_fore
\* instances through
AugmentSkipsStrict(num_inst, repeat_ratio, num_fore) ==
    repeat_ratio # None /\ (num_inst = 0 \/ num_inst > Val(num_fore))

\* variant of AugmentSkips that skips only the images without instances
AugmentSkipsEmptyOnly(num_inst, repeat_ratio, num_fore) ==
    repeat_ratio # None /\ num_inst = 0

\* line 391: whether the loop leaves the image as it is (continue)
AugmentSkips(num_inst, repeat_ratio, num_fore) ==
    repeat_ratio # None /\ (num_inst = 0 \/ num_inst >= Val(num_fore))

\* variant of AugmentImage whose labels are sampled with an index tensor of
\* their own
AugmentImageOwnSample(t, repeat_label, repeat_ratio, num_queries, perm) ==
    LET num_fore == IF repeat_ratio # None
                    THEN Some(NumFore(Val(repeat_ratio), num_queries))
                    ELSE None
        num_inst == Len(t.labels)
    IN  IF AugmentSkips(num_inst, repeat_ratio, num_fore)
        THEN t
        ELSE LET repeat_time == IF num_fore # None
                                THEN Val(num_fore) \div num_inst
                                ELSE Val(repeat_label)
                 repeat_rand == IF num_fore # None
                                THEN Some(Val(num_fore) % num_inst)
                                ELSE None
                 keys == DOMAIN t \cup {"repeat"}
             IN  [k \in keys |->
                    IF k = "labels"
                    THEN AugmentField(t[k], repeat_time, repeat_rand,
                                      [j \in 1..Len(perm) |-> perm[Len(perm) + 1 - j]])
                    ELSE IF k \in InstKeys
                    THEN AugmentField(t[k], repeat_time, repeat_rand, perm)
                    ELSE IF k = "repeat"
                    THEN RepeatFlags(num_inst, repeat_time)
                    ELSE t[k]]

\* the body of the loop over batch_idx for one target dict t; perm is the
\* value torch.randperm(num_inst) returns if it is called
AugmentImage(t, repeat_label, repeat_ratio, num_queries, perm) ==
    LET num_fore == IF repeat_ratio # None
                    THEN Some(NumFore(Val(repeat_ratio), num_queries))
                    ELSE None
        num_inst == Len(t.labels)
    IN  IF AugmentSkips(num_inst, repeat_ratio, num_fore)
        THEN t
        ELSE LET repeat_time == IF num_fore # None
                                THEN Val(num_fore) \div num_inst
                                ELSE Val(repeat_label)
                 repeat_rand == IF num_fore # None
                                THEN Some(Val(num_fore) % num_inst)
                                ELSE None
                 keys == DOMAIN t \cup {"repeat"}
             IN  [k \in keys |->
                    IF k \in InstKeys
                    THEN AugmentField(t[k], repeat_time, repeat_rand, perm)
                    ELSE IF k = "repeat"
                    THEN RepeatFlags(num_inst, repeat_time)
                    ELSE t[k]]

\* variant of AugmentActive that does not look at the mode
AugmentConfigured(training, repeat_label, repeat_ratio) ==
    repeat_label # None \/ repeat_ratio # None

\* whether lines 385-386 let the augmentation run at all
AugmentActive(training, repeat_label, repeat_ratio) ==
    training /\ (repeat_label # None \/ repeat_ratio # None)

\* the targets list after lines 385-412; perms[b] is the permutation drawn
\* for image b
AugmentTargets(targets, training, repeat_label, repeat_ratio, num_queries, perms) ==
    IF AugmentActive(training, repeat_label, repeat_ratio)
    THEN [b \in 1..Len(targets) |->
            AugmentImage(targets[b], repeat_label, repeat_ratio, num_queries, perms[b])]
    ELSE targets

----------------------------------------------------------------------------
(* Rationals, for the losses divided by num_boxes *)

RECURSIVE Gcd(_, _)
Gcd(a, b) == IF b = 0 THEN a ELSE Gcd(b, a % b)

\* the rational n/d (d > 0) in lowest terms
Rat(n, d) == LET g == Gcd(Abs(n), d) IN <<n \div g, d \div g>>
\* sum and difference over the least common denominator
RatAdd(x, y) ==
    LET g == Gcd(x[2], y[2])
    IN  Rat(x[1] * (y[2] \div g) + y[1] * (x[2] \div g), (x[2] \div g) * y[2])
RatSub(x, y) == RatAdd(x, <<-y[1], y[2]>>)
\* x / y for y > 0
RatDiv(x, y) == Rat(x[1] * y[2], x[2] * y[1])
RatLeq(x, y) == x[1] * y[2] <= y[1] * x[2]

RECURSIVE RatSum(_)
RatSum(s) == IF s = <<>> THEN <<0, 1>> ELSE RatAdd(Head(s), RatSum(Tail(s)))

----------------------------------------------------------------------------
(* GeometryOps: util/box_ops.py, as the spec's section 4.1 describes it *)

\* (cx, cy, w, h) -> (x0, y0, x1, y1), in half grid units so that
\* cx - 0.5 * w stays an integer
box_cxcywh_to_xyxy(b) ==
    <<2 * b[1] - b[3], 2 * b[2] - b[4], 2 * b[1] + b[3], 2 * b[2] + b[4]>>

box_area(c) == (c[3] - c[1]) * (c[4] - c[2])

box_inter(c, d) ==
    Max(0, Min(c[3], d[3]) - Max(c[1], d[1])) * Max(0, Min(c[4], d[4]) - Max(c[2], d[2]))

box_union(c, d) == box_area(c) + box_area(d) - box_inter(c, d)

\* area of the smallest box enclosing both
box_enclose(c, d) ==
    (Max(c[3], d[3]) - Min(c[1], d[1])) * (Max(c[4], d[4]) - Min(c[2], d[2]))

\* IoU of two corner boxes of positive area
box_iou(c, d) == Rat(box_inter(c, d), box_union(c, d))

\* generalized IoU: IoU - (enclosing - union) / enclosing
generalized_box_iou(c, d) ==
    RatSub(box_iou(c, d),
           Rat(box_enclose(c, d) - box_union(c, d), box_enclose(c, d)))

\* sum over the four coordinates of |a - b|: F.l1_loss(reduction='none').sum()
\* of one row
L1(a, b) == Abs(a[1] - b[1]) + Abs(a[2] - b[2]) + Abs(a[3] - b[3]) + Abs(a[4] - b[4])

----------------------------------------------------------------------------
(* The matcher (models/matcher.py), by its contract in the spec's 4.3 *)

\* strictly increasing sequences of length k over 0..(n-1)
IncSeqs(n, k) == {s \in [1..k -> 0..(n - 1)] : \A a \in 1..(k - 1) : s[a] < s[a + 1]}

\* the assignments <<src, tgt>> the matcher may return for one image with
\* num_queries slots and n targets: min(Q, n) pairs, the slot indices in
\* increasing order, no slot and no target twice
Assignments(num_queries, n) ==
    LET k == Min(num_queries, n)
    IN  {<<src, tgt>> : src \in IncSeqs(num_queries, k), tgt \in InjSeqs(0..(n - 1), k)}

\* whether idx, one assignment per image, is a result self.matcher(outputs,
\* targets) may return
IsMatching(idx, num_queries, targets) ==
    /\ Len(idx) = Len(targets)
    /\ \A b \in 1..Len(targets) :
          idx[b] \in Assignments(num_queries, Len(targets[b].labels))

\* the assignment that pairs the lowest slots with the lowest targets
FirstAssignment(num_queries, n) ==
    LET k == Min(num_queries, n)
    IN  <<[a \in 1..k |-> a - 1], [a \in 1..k |-> a - 1]>>

RECURSIVE ProductSeqs(_)
\* the sequences whose k-th element is drawn from the k-th set
ProductSeqs(sets) ==
    IF sets = <<>> THEN {<<>>}
    ELSE {<<x>> \o r : x \in Head(sets), r \in ProductSeqs(Tail(sets))}

\* every result the matcher may return for the batch
Matchings(num_queries, targets) ==
    ProductSeqs([b \in 1..Len(targets) |-> Assignments(num_queries, Len(targets[b].labels))])

\* the results explored for one matcher call: all of them, or the one that
\* pairs lowest indices where the assignment itself is not looked at
MatcherResults(all, num_queries, targets) ==
    IF all THEN Matchings(num_queries, targets)
    ELSE {[b \in 1..Len(targets) |-> FirstAssignment(num_queries, Len(targets[b].labels))]}

----------------------------------------------------------------------------
(* The loss terms of SetCriterion *)

\* variant of get_src_permutation_idx whose batch_idx is 0 for every pair
SrcIdxOfFirstImage(indices) ==
    <<Concat([b \in 1..Len(indices) |-> [k \in 1..Len(indices[b][1]) |-> 0]]),
      Concat([b \in 1..Len(indices) |-> indices[b][1]])>>

\* _get_src_permutation_idx: <<batch_idx, src_idx>>, the image number
\* (0-based) of every pair and its slot
FullLike(s, i) == [k \in 1..Len(s) |-> i]
get_src_permutation_idx(indices) ==
    <<Concat([b \in 1..Len(indices) |-> FullLike(indices[b][1], b - 1)]),
      Concat([b \in 1..Len(indices) |-> indices[b][1]])>>

\* _get_tgt_permutation_idx
get_tgt_permutation_idx(indices) ==
    <<Concat([b \in 1..Len(indices) |-> FullLike(indices[b][2], b - 1)]),
      Concat([b \in 1..Len(indices) |-> indices[b][2]])>>

RECURSIVE IndexPut(_, _, _)
\* matrix[idx] = vals for idx = <<batch_idx, src_idx>>: the assignments in
\* the order of the index tensors
IndexPut(matrix, idx, vals) ==
    IF vals = <<>> THEN matrix
    ELSE IndexPut([matrix EXCEPT ![idx[1][1] + 1][idx[2][1] + 1] = vals[1]],
                  <<Tail(idx[1]), Tail(idx[2])>>, Tail(vals))

\* target_classes of loss_labels (lines 259-263): a bs x num_queries matrix
TargetClasses(targets, indices, bs, num_queries, num_classes) ==
    LET idx == get_src_permutation_idx(indices)
        target_classes_o ==
            Concat([b \in 1..Len(targets) |-> Gather(targets[b].labels, indices[b][2])])
        full == [b \in 1..bs |-> [q \in 1..num_queries |-> num_classes]]
    IN  IndexPut(full, idx, target_classes_o)

\* src_boxes of loss_boxes (lines 293-294): outputs['pred_boxes'][idx]
SrcBoxes(pred_boxes, indices) ==
    LET idx == get_src_permutation_idx(indices)
    IN  [k \in 1..Len(idx[1]) |-> pred_boxes[idx[1][k] + 1][idx[2][k] + 1]]

\* variant of TargetBoxes that takes the targets in their order
TargetBoxesInOrder(targets, indices) ==
    Concat([b \in 1..Len(targets) |-> SubSeq(targets[b].boxes, 1, Len(indices[b][2]))])

\* target_boxes of loss_boxes (line 295)
TargetBoxes(targets, indices) ==
    Concat([b \in 1..Len(targets) |-> Gather(targets[b].boxes, indices[b][2])])

\* loss_boxes: the two box losses, rationals, for num_boxes a rational
loss_boxes(pred_boxes, targets, indices, num_boxes) ==
    LET src_boxes == SrcBoxes(pred_boxes, indices)
        target_boxes == TargetBoxes(targets, indices)
        loss_bbox == SumSeq([k \in 1..Len(src_boxes) |-> L1(src_boxes[k], target_boxes[k])])
        loss_giou == RatSum([k \in 1..Len(src_boxes) |->
                        RatSub(<<1, 1>>,
                               generalized_box_iou(box_cxcywh_to_xyxy(src_boxes[k]),
                                                   box_cxcywh_to_xyxy(target_boxes[k])))])
    IN  [loss_bbox |-> RatDiv(<<loss_bbox, 1>>, num_boxes),
         loss_giou |-> RatDiv(loss_giou, num_boxes)]

----------------------------------------------------------------------------
(* The loss bundle *)

\* the layer tag of the last decoder layer; auxiliary layer i has tag i
LastLayer == -1

\* number of object categories of the dataset the dumps are made for
\* (dataset2numcls['cityscapes'])
NumClasses == 9

\* losses of build(): the loss kinds, with 'masks' only when args.masks
LossKinds(masks) ==
    IF masks THEN <<"labels", "boxes", "cardinality", "masks">>
    ELSE <<"labels", "boxes", "cardinality">>

\* get_loss: the names of the terms one loss kind returns; log is the
\* keyword argument of loss_labels
get_loss(loss, log) ==
    CASE loss = "labels" -> IF log THEN {"loss_ce", "class_error"} ELSE {"loss_ce"}
      [] loss = "cardinality" -> {"cardinality_error"}
      [] loss = "boxes" -> {"loss_bbox", "loss_giou"}
      [] loss = "masks" -> {"loss_mask", "loss_dice"}

\* the scalar a term of a layer evaluates to, kept as where it comes from
TermValue(layer, name) == [layer |-> layer, term |-> name]

RECURSIVE LastLayerLosses(_, _)
\* lines 427-429: losses.update(get_loss(loss, ...)) for loss in self.losses
LastLayerLosses(kinds, losses) ==
    IF kinds = <<>> THEN losses
    ELSE LastLayerLosses(Tail(kinds),
            Update(losses, [k \in get_loss(Head(kinds), TRUE) |-> TermValue(LastLayer, k)]))

\* variant of AuxKey without the layer suffix
AuxKeyPlain(k, i) == k

\* the key of an auxiliary term: k + f'_{i}'
AuxKey(k, i) == k \o "_" \o ToString(i)

\* l_dict = {k + f'_{i}': v for k, v in l_dict.items()} for one loss kind
AuxDict(loss, i) ==
    LET l_dict == get_loss(loss, IF loss = "labels" THEN FALSE ELSE TRUE)
    IN  [key \in {AuxKey(k, i) : k \in l_dict} |->
            TermValue(i, CHOOSE k \in l_dict : AuxKey(k, i) = key)]

RECURSIVE AuxLayerLosses(_, _, _)
\* lines 435-445 for auxiliary layer i: every loss kind but 'masks'
AuxLayerLosses(kinds, i, losses) ==
    IF kinds = <<>> THEN losses
    ELSE IF Head(kinds) = "masks" THEN AuxLayerLosses(Tail(kinds), i, losses)
    ELSE AuxLayerLosses(Tail(kinds), i, Update(losses, AuxDict(Head(kinds), i)))

\* variant of AuxOrder that walks the auxiliary layers from the last
AuxOrderReversed(naux) == [k \in 1..naux |-> naux - k]

\* enumerate(outputs['aux_outputs']): the layer indices in iteration order
AuxOrder(naux) == [k \in 1..naux |-> k - 1]

----------------------------------------------------------------------------
(* The normaliser, lines 420-424 *)

\* variant of LocalCount that counts every instance once, however often it
\* is repeated
LocalCountOriginals(targets) ==
    SumSeq([b \in 1..Len(targets) |-> Cardinality(Range(targets[b].boxes))])

\* sum(len(t["labels"]) for t in targets)
LocalCount(targets) == SumSeq([b \in 1..Len(targets) |-> Len(targets[b].labels)])

\* variant of ClampNumBoxes that clamps the sum before it divides
ClampBeforeDivide(total, ws) == Rat(Max(total, 1), ws)

\* torch.clamp(num_boxes / get_world_size(), min=1) as a rational
ClampNumBoxes(total, ws) == IF RatLeq(<<1, 1>>, Rat(total, ws)) THEN Rat(total, ws) ELSE <<1, 1>>

----------------------------------------------------------------------------
(* Inputs: configurations, batches, network outputs *)

\* the target instances a data set holds; no two share a box
InstSeq ==
    << [label |-> 0, box |-> <<2, 2, 2, 2>>, area |-> 4,  iscrowd |-> 0],
       [label |-> 3, box |-> <<4, 4, 4, 4>>, area |-> 16, iscrowd |-> 0],
       [label |-> 3, box |-> <<6, 6, 2, 2>>, area |-> 4,  iscrowd |-> 1] >>
InstSet == Range(InstSeq)

\* the target dict the data loader builds from a list of instances
TargetDict(insts, id) ==
    [boxes    |-> [k \in 1..Len(insts) |-> insts[k].box],
     labels   |-> [k \in 1..Len(insts) |-> insts[k].label],
     area     |-> [k \in 1..Len(insts) |-> insts[k].area],
     iscrowd  |-> [k \in 1..Len(insts) |-> insts[k].iscrowd],
     image_id |-> id]

\* the instance lists of one image: up to maxn distinct instances
InstLists(maxn) == UNION {InjSeqs(InstSet, n) : n \in 0..maxn}

\* the batches of bs images; image b has its instance list from lists[b],
\* or from the last entry of lists, and in iteration s of process p the id
\* <<p, s, b>>
Batches(bs, lists, p, s) ==
    {[b \in 1..bs |-> TargetDict(il[b], <<p, s, b>>)] :
        il \in ProductSeqs([b \in 1..bs |-> lists[Min(b, Len(lists))]])}

\* loss_masks, lines 309-311: when mask losses are asked for, a target dict
\* holds the key "masks", a tensor with one row per target box of the image
\* as it was loaded; row k is kept as k
LoadMasks(batch, masks) ==
    IF masks
    THEN [b \in 1..Len(batch) |->
            Update(batch[b], [masks |-> [k \in 1..Len(batch[b].labels) |-> k]])]
    ELSE batch

\* the instance lists of one image that hold the first n instances, n up
\* to maxn
PrefixLists(maxn) == {SubSeq(InstSeq, 1, n) : n \in 0..Min(maxn, Len(InstSeq))}

\* an image without objects and an image with one
FewLists == {<<>>, <<CHOOSE x \in InstSet : x.label = 0>>}

\* the boxes the network may predict
PredBoxSet == << <<2, 2, 2, 2>>, <<4, 4, 4, 4>>, <<6, 6, 2, 2>>, <<4, 4, 8, 8>>, <<3, 5, 2, 6>> >>

\* pred_boxes of one decoder layer: bs x num_queries boxes
PredBoxes(seed, layer, bs, num_queries) ==
    [b \in 1..bs |-> [q \in 1..num_queries |->
        PredBoxSet[((seed + 3 * (layer + 1) + 2 * b + q) % Len(PredBoxSet)) + 1]]]

\* DETR.forward's return value (lines 207-211): the last layer's predictions
\* and, with aux_loss, one entry per earlier decoder layer (_set_aux_loss)
ModelOutputs(seed, bs, num_queries, aux_loss, dec_layers) ==
    [pred_boxes  |-> PredBoxes(seed, LastLayer, bs, num_queries),
     aux_outputs |-> IF aux_loss
                     THEN Some([k \in 1..(dec_layers - 1) |->
                                 [pred_boxes |-> PredBoxes(seed, k - 1, bs, num_queries)]])
                     ELSE None]

\* --repeat_ratio values explored
Ratios == {<<1, 4>>, <<1, 2>>, <<3, 4>>}

\* the augmentation settings SetCriterion.__init__ accepts: at most one of
\* repeat_label, repeat_ratio
RepeatModes ==
    {[repeat_label |-> None, repeat_ratio |-> None]}
    \cup {[repeat_label |-> Some(r), repeat_ratio |-> None] : r \in 0..MaxRepeat}
    \cup {[repeat_label |-> None, repeat_ratio |-> Some(x)] : x \in Ratios}

\* a configuration: the arguments of main.py that the model reads, and the
\* mode (train() / eval()) of the criterion
Configs(queries, layers, sizes) ==
    {[training |-> tr, repeat_label |-> m.repeat_label, repeat_ratio |-> m.repeat_ratio,
      num_queries |-> q, masks |-> mk, aux_loss |-> ax, dec_layers |-> dl,
      batch_size |-> bs] :
        tr \in BOOLEAN, m \in RepeatModes, q \in queries, mk \in BOOLEAN,
        ax \in BOOLEAN, dl \in layers, bs \in sizes}

----------------------------------------------------------------------------
(* State *)

VARIABLES
    world_size,     \* get_world_size()
    cwd,            \* cwd[p]: the working directory process p was started in
    dist,           \* is_dist_avail_and_initialized()
    cfg,            \* the configuration
    pc,             \* pc[p]: where process p is
    step,           \* step[p]: iterations process p has completed
    targets,        \* targets[p]: the targets list of the current iteration
    loaded,         \* loaded[p]: the targets as the data loader yielded them
    outputs,        \* outputs[p]: what DETR.forward returned
    model_cnt,      \* model_cnt[p]: DETR._cnt
    crit_cnt,       \* crit_cnt[p]: SetCriterion._cnt
    files,          \* ./pro_data/DETR_CITY/train/outputs/<n>.json, by directory and n
    img,            \* img[p]: the loop variable i of store_results
    json_data,      \* json_data[p]: what SetCriterion.store_results loaded
    indices,        \* indices[p]: the matcher's last result
    calls,          \* calls[p]: the matcher invocations of the current forward
    reduce_in,      \* reduce_in[p]: the tensor p brought to all_reduce
    num_boxes,      \* num_boxes[p]
    losses,         \* losses[p]: the loss bundle
    aux_i,          \* aux_i[p]: auxiliary layers done
    target_classes, \* target_classes[p] of the last loss_labels call
    box_losses,     \* box_losses[p]: result of the last loss_boxes call
    pp,             \* PostProcess.forward: its inputs and results
    main,           \* main(args): how far the start-up has come, and its args
    folders,        \* how many of ./pro_data/DETR_CITY, .../train, .../outputs exist,
                    \* by directory
    path,           \* path[p]: the folder of that list DETR.store_results is at
    wrote           \* wrote[p]: the write() calls of p's json.dump so far

vars == <<world_size, cwd, dist, cfg, pc, step, targets, loaded, outputs, model_cnt,
          crit_cnt, files, img, json_data, indices, calls, reduce_in, num_boxes,
          losses, aux_i, target_classes, box_losses, pp, main, folders, path, wrote>>

envVars == <<world_size, cwd, dist, cfg>>
dumpVars == <<model_cnt, crit_cnt, files, img, json_data, folders, path, wrote>>
critVars == <<indices, calls, reduce_in, num_boxes, losses, aux_i, target_classes, box_losses>>

Procs == 1..world_size

\* the default of --batch_size, the images of one batch
BatchSize == 2

\* the file numbers that can occur
FileNos == 0..(MaxSteps * BatchSize - 1)

\* a file that does not exist
Absent == [st |-> "absent"]
\* a file open(path, "w") has created or truncated: it is empty.  A file
\* holds the pieces the write() calls have put there, piece k at the offset
\* of the k-th write, and junk says that its bytes are no json although
\* every piece is there
Partial == [st |-> "file", pieces |-> <<>>, junk |-> FALSE]
\* the bytes before a write at an offset past the end of the file
Hole == [by |-> 0]

\* piece k of the dump of doc by process p: the rows of the features that
\* fall into it and, in the last piece, the ground truth, which json.dump
\* writes at the end (lines 366-369 add its keys last)
Piece(p, doc, k) ==
    [by |-> p, rows |-> doc.feature[k], gt |-> IF k = MaxWrites THEN doc.gt ELSE None]

\* the k-th write() of p's json.dump of doc into file f, at the offset of
\* p's descriptor.  When f holds just p's pieces before, the piece is
\* appended.  Otherwise other writers have truncated f or written to it
\* since p's open: bytes between the end of f and the offset are a hole,
\* and where pieces of different dumps meet, or a longer piece was at the
\* end of f, the bytes are json or not, by the lengths of the dumps, which
\* depend on the digits of the numbers dumped.
WriteAt(f, p, doc, k) ==
    LET old == f.pieces
        n == Max(Len(old), k)
        new == [j \in 1..n |-> IF j = k THEN Piece(p, doc, k)
                               ELSE IF j <= Len(old) THEN old[j] ELSE Hole]
        own == Len(old) = k - 1 /\ \A j \in 1..Len(old) : old[j].by = p
        whole == n = MaxWrites /\ \A j \in 1..n : new[j] # Hole
    IN  IF own \/ ~whole
        THEN {[st |-> "file", pieces |-> new, junk |-> FALSE]}
        ELSE {[st |-> "file", pieces |-> new, junk |-> b] : b \in BOOLEAN}

\* whether json.load accepts what f holds
IsJson(f) ==
    /\ f.st = "file" /\ ~f.junk
    /\ Len(f.pieces) = MaxWrites
    /\ \A k \in 1..MaxWrites : f.pieces[k] # Hole

\* json.load of f, line 364: the feature rows of every piece, and the
\* ground truth of the last
Load(f) ==
    [st |-> "json", feature |-> [k \in 1..MaxWrites |-> f.pieces[k].rows],
     gt |-> f.pieces[MaxWrites].gt]

\* the folders create_folder_if_not_exists is called for, one inside the
\* other: ./pro_data/DETR_CITY, .../train, .../outputs (lines 133-138)
NumFolders == 3

----------------------------------------------------------------------------
(* Initial states *)

InitProcsIn(ws, d, configs, dirs) ==
    /\ world_size = ws
    /\ cwd = dirs
    /\ dist = d
    /\ cfg \in configs
    /\ pc = [p \in 1..ws |-> "idle"]
    /\ step = [p \in 1..ws |-> 0]
    /\ targets = [p \in 1..ws |-> <<>>]
    /\ loaded = [p \in 1..ws |-> <<>>]
    /\ outputs = [p \in 1..ws |-> <<>>]
    /\ model_cnt = [p \in 1..ws |-> 0]
    /\ crit_cnt = [p \in 1..ws |-> 0]
    /\ files = [dir \in 1..ws |-> [n \in FileNos |-> Absent]]
    /\ img = [p \in 1..ws |-> 0]
    /\ json_data = [p \in 1..ws |-> Absent]
    /\ folders = [dir \in 1..ws |-> 0]
    /\ path = [p \in 1..ws |-> 1]
    /\ wrote = [p \in 1..ws |-> 0]
    /\ indices = [p \in 1..ws |-> <<>>]
    /\ calls = [p \in 1..ws |-> <<>>]
    /\ reduce_in = [p \in 1..ws |-> None]
    /\ num_boxes = [p \in 1..ws |-> None]
    /\ losses = [p \in 1..ws |-> <<>>]
    /\ aux_i = [p \in 1..ws |-> 0]
    /\ target_classes = [p \in 1..ws |-> <<>>]
    /\ box_losses = [p \in 1..ws |-> <<>>]

\* every process was started in the same directory
InitProcs(ws, d, configs) == InitProcsIn(ws, d, configs, [p \in 1..ws |-> 1])

\* every process was started in a directory of its own, as a process on a
\* node of its own is
InitNodes(ws, d, configs) == InitProcsIn(ws, d, configs, [p \in 1..ws |-> p])

----------------------------------------------------------------------------
(* One training iteration of process p: DETR.forward, then           *)
(* SetCriterion.forward on its result and the batch's targets.       *)

\* Once main has built model and criterion, the data loader yields a batch
\* and DETR.forward computes its outputs (lines 160-209).  One iteration per
\* process is followed.
StartIteration(p, lists, seeds) ==
    /\ main.pc = "run"
    /\ pc[p] = "idle"
    /\ step[p] = 0
    /\ \E batch \in {LoadMasks(b, cfg.masks) : b \in Batches(cfg.batch_size, lists, p, step[p])},
          seed \in seeds :
          /\ targets' = [targets EXCEPT ![p] = batch]
          /\ loaded' = [loaded EXCEPT ![p] = batch]
          /\ outputs' = [outputs EXCEPT ![p] =
                ModelOutputs(seed, cfg.batch_size, cfg.num_queries, cfg.aux_loss, cfg.dec_layers)]
    /\ img' = [img EXCEPT ![p] = 0]
    /\ calls' = [calls EXCEPT ![p] = <<>>]
    /\ path' = [path EXCEPT ![p] = 1]
    /\ pc' = [pc EXCEPT ![p] = "m_exists"]
    /\ UNCHANGED <<envVars, step, model_cnt, crit_cnt, files, json_data, indices,
                   reduce_in, num_boxes, losses, aux_i, target_classes, box_losses, pp, main,
                   folders, wrote>>

\* A later iteration of the loop: the data loader yields a batch, which with
\* reuse is the list of target dicts of the iteration before, as
\* SetCriterion.forward left them, and DETR.forward computes its outputs
LaterIteration(p, lists, seeds, reuse) ==
    /\ main.pc = "run"
    /\ pc[p] = "idle"
    /\ step[p] >= 1 /\ step[p] < MaxSteps
    /\ \E batch \in (IF reuse THEN {targets[p]}
                      ELSE {LoadMasks(b, cfg.masks) :
                                b \in Batches(cfg.batch_size, lists, p, step[p])}),
          seed \in seeds :
          /\ targets' = [targets EXCEPT ![p] = batch]
          /\ loaded' = [loaded EXCEPT ![p] = batch]
          /\ outputs' = [outputs EXCEPT ![p] =
                ModelOutputs(seed, cfg.batch_size, cfg.num_queries, cfg.aux_loss, cfg.dec_layers)]
    /\ img' = [img EXCEPT ![p] = 0]
    /\ calls' = [calls EXCEPT ![p] = <<>>]
    /\ path' = [path EXCEPT ![p] = 1]
    /\ pc' = [pc EXCEPT ![p] = "m_exists"]
    /\ UNCHANGED <<envVars, step, model_cnt, crit_cnt, files, json_data, indices,
                   reduce_in, num_boxes, losses, aux_i, target_classes, box_losses, pp, main,
                   folders, wrote>>

\* DETR.store_results, lines 133-138: after a call of
\* create_folder_if_not_exists the next folder of the path is gone to, or,
\* after the last one, line 140
AfterFolder(p) ==
    IF path[p] < NumFolders
    THEN /\ path' = [path EXCEPT ![p] = @ + 1]
         /\ pc' = [pc EXCEPT ![p] = "m_exists"]
    ELSE /\ path' = path
         /\ pc' = [pc EXCEPT ![p] = "m_open"]

\* create_folder_if_not_exists, line 47: os.path.exists(folder_path); the
\* call returns for a folder that exists and goes on to line 48 otherwise
FolderExists(p) ==
    /\ pc[p] = "m_exists"
    /\ IF folders[cwd[p]] >= path[p]
       THEN AfterFolder(p)
       ELSE /\ path' = path
            /\ pc' = [pc EXCEPT ![p] = "m_makedirs"]
    /\ UNCHANGED <<envVars, step, targets, loaded, outputs, model_cnt, crit_cnt, files, img,
                   json_data, folders, wrote, critVars, pp, main>>

\* create_folder_if_not_exists, line 48: os.makedirs(folder_path) creates
\* the folder and those above it; when another process has created the
\* folder since line 47, FileExistsError leaves DETR.forward
Makedirs(p) ==
    /\ pc[p] = "m_makedirs"
    /\ IF folders[cwd[p]] >= path[p]
       THEN /\ pc' = [pc EXCEPT ![p] = "m_raised"]
            /\ UNCHANGED <<folders, path>>
       ELSE /\ folders' = [folders EXCEPT ![cwd[p]] = path[p]]
            /\ AfterFolder(p)
    /\ UNCHANGED <<envVars, step, targets, loaded, outputs, model_cnt, crit_cnt, files, img,
                   json_data, wrote, critVars, pp, main>>

\* DETR.store_results, line 140: open(path, "w") creates or truncates the
\* file named by self._cnt
ModelOpen(p) ==
    /\ pc[p] = "m_open"
    /\ files' = [files EXCEPT ![cwd[p]][model_cnt[p]] = Partial]
    /\ wrote' = [wrote EXCEPT ![p] = 0]
    /\ pc' = [pc EXCEPT ![p] = "m_dump"]
    /\ UNCHANGED <<envVars, step, targets, loaded, outputs, model_cnt, crit_cnt, img,
                   json_data, folders, path, critVars, pp, main>>

\* feature rows that all come from the image tagged id
Rows(id) == [k \in 1..MaxWrites |-> id]

\* variant of ModelJson that dumps the features of the first image of the
\* batch for every image
ModelJsonFirstImage(p, i) == [st |-> "json", feature |-> Rows(<<p, step[p], 1>>), gt |-> None]

\* the json the model dumps for image i of its batch: the features and
\* predictions of that image (lines 128-131)
ModelJson(p, i) == [st |-> "json", feature |-> Rows(<<p, step[p], i + 1>>), gt |-> None]

\* DETR.store_results, line 141: a write() call of json.dump that is not
\* its last
ModelWrite(p) ==
    /\ pc[p] = "m_dump"
    /\ wrote[p] + 1 < MaxWrites
    /\ \E f \in WriteAt(files[cwd[p]][model_cnt[p]], p, ModelJson(p, img[p]), wrote[p] + 1) :
          files' = [files EXCEPT ![cwd[p]][model_cnt[p]] = f]
    /\ wrote' = [wrote EXCEPT ![p] = @ + 1]
    /\ UNCHANGED <<envVars, pc, step, targets, loaded, outputs, model_cnt, crit_cnt, img,
                   json_data, folders, path, critVars, pp, main>>

\* DETR.store_results, lines 141-143: the last write() of json.dump, at
\* the close, self._cnt += 1, and the next round of the loop over
\* hidden_states.shape[1] images, or the return of forward
ModelDump(p) ==
    /\ pc[p] = "m_dump"
    /\ wrote[p] + 1 = MaxWrites
    /\ \E f \in WriteAt(files[cwd[p]][model_cnt[p]], p, ModelJson(p, img[p]), MaxWrites) :
          files' = [files EXCEPT ![cwd[p]][model_cnt[p]] = f]
    /\ wrote' = [wrote EXCEPT ![p] = 0]
    /\ model_cnt' = [model_cnt EXCEPT ![p] = @ + 1]
    /\ IF img[p] + 1 < cfg.batch_size
       THEN /\ img' = [img EXCEPT ![p] = @ + 1]
            /\ path' = [path EXCEPT ![p] = 1]
            /\ pc' = [pc EXCEPT ![p] = "m_exists"]
       ELSE /\ img' = [img EXCEPT ![p] = 0]
            /\ path' = path
            /\ pc' = [pc EXCEPT ![p] = "c_read"]
    /\ UNCHANGED <<envVars, step, targets, loaded, outputs, crit_cnt, json_data, folders,
                   critVars, pp, main>>

\* SetCriterion.store_results, lines 363-364: open(path, 'r') and json.load
\* of the file named by self._cnt, which holds a json
CritRead(p) ==
    /\ pc[p] = "c_read"
    /\ IsJson(files[cwd[p]][crit_cnt[p]])
    /\ json_data' = [json_data EXCEPT ![p] = Load(files[cwd[p]][crit_cnt[p]])]
    /\ pc' = [pc EXCEPT ![p] = "c_open"]
    /\ UNCHANGED <<envVars, step, targets, loaded, outputs, model_cnt, crit_cnt, files,
                   img, folders, path, wrote, critVars, pp, main>>

\* the same lines when the file is missing (FileNotFoundError), or is
\* empty, lacks pieces of a dump that is under way, or holds bytes of
\* several dumps that are no json (JSONDecodeError): the exception leaves
\* SetCriterion.forward
CritReadRaises(p) ==
    /\ pc[p] = "c_read"
    /\ ~IsJson(files[cwd[p]][crit_cnt[p]])
    /\ pc' = [pc EXCEPT ![p] = "raised"]
    /\ UNCHANGED <<envVars, step, targets, loaded, outputs, dumpVars, critVars, pp, main>>

\* line 371: open(path, "w") truncates the file
CritOpen(p) ==
    /\ pc[p] = "c_open"
    /\ files' = [files EXCEPT ![cwd[p]][crit_cnt[p]] = Partial]
    /\ wrote' = [wrote EXCEPT ![p] = 0]
    /\ pc' = [pc EXCEPT ![p] = "c_dump"]
    /\ UNCHANGED <<envVars, step, targets, loaded, outputs, model_cnt, crit_cnt, img,
                   json_data, folders, path, critVars, pp, main>>

\* lines 366-369: the loaded json with the ground truth of targets[i] added
CritJson(p) ==
    [json_data[p] EXCEPT !.gt = Some([image_id |-> targets[p][img[p] + 1].image_id,
                                      gt_labels |-> targets[p][img[p] + 1].labels])]

\* line 372: a write() call of json.dump that is not its last
CritWrite(p) ==
    /\ pc[p] = "c_dump"
    /\ wrote[p] + 1 < MaxWrites
    /\ \E f \in WriteAt(files[cwd[p]][crit_cnt[p]], p, CritJson(p), wrote[p] + 1) :
          files' = [files EXCEPT ![cwd[p]][crit_cnt[p]] = f]
    /\ wrote' = [wrote EXCEPT ![p] = @ + 1]
    /\ UNCHANGED <<envVars, pc, step, targets, loaded, outputs, model_cnt, crit_cnt, img,
                   json_data, folders, path, critVars, pp, main>>

\* lines 372-374: the last write() of json.dump, at the close,
\* self._cnt += 1; after the last image forward goes on
CritDump(p) ==
    /\ pc[p] = "c_dump"
    /\ wrote[p] + 1 = MaxWrites
    /\ \E f \in WriteAt(files[cwd[p]][crit_cnt[p]], p, CritJson(p), MaxWrites) :
          files' = [files EXCEPT ![cwd[p]][crit_cnt[p]] = f]
    /\ wrote' = [wrote EXCEPT ![p] = 0]
    /\ crit_cnt' = [crit_cnt EXCEPT ![p] = @ + 1]
    /\ IF img[p] + 1 < Len(targets[p])
       THEN /\ img' = [img EXCEPT ![p] = @ + 1]
            /\ pc' = [pc EXCEPT ![p] = "c_read"]
       ELSE /\ img' = [img EXCEPT ![p] = 0]
            /\ pc' = [pc EXCEPT ![p] = "augment"]
    /\ UNCHANGED <<envVars, step, targets, loaded, outputs, model_cnt, json_data, folders, path,
                   critVars, pp, main>>

\* lines 385-412: the augmentation, with the permutations randperm draws
Augment(p) ==
    /\ pc[p] = "augment"
    /\ \E perms \in [1..Len(targets[p]) ->
                        UNION {RandPerms(Len(targets[p][b].labels)) : b \in 1..Len(targets[p])}] :
          /\ \A b \in 1..Len(targets[p]) : Len(perms[b]) = Len(targets[p][b].labels)
          /\ targets' = [targets EXCEPT ![p] =
                AugmentTargets(targets[p], cfg.training, cfg.repeat_label, cfg.repeat_ratio,
                               cfg.num_queries, perms)]
    /\ pc' = [pc EXCEPT ![p] = "match"]
    /\ UNCHANGED <<envVars, step, loaded, outputs, dumpVars, critVars, pp, main>>

\* one invocation of self.matcher on a layer's outputs and the targets
MatcherCall(log, layer, tgts) == Append(log, [layer |-> layer, targets |-> tgts])

\* variant of Match that hands the matcher the targets as they were loaded
MatchLoaded(p, all) ==
    /\ pc[p] = "match"
    /\ \E idx \in MatcherResults(all, cfg.num_queries, loaded[p]) :
          indices' = [indices EXCEPT ![p] = idx]
    /\ calls' = [calls EXCEPT ![p] = MatcherCall(@, LastLayer, loaded[p])]
    /\ pc' = [pc EXCEPT ![p] = "count"]
    /\ UNCHANGED <<envVars, step, targets, loaded, outputs, dumpVars, reduce_in, num_boxes,
                   losses, aux_i, target_classes, box_losses, pp, main>>

\* line 417: the matching of the last layer
Match(p, all) ==
    /\ pc[p] = "match"
    /\ \E idx \in MatcherResults(all, cfg.num_queries, targets[p]) :
          indices' = [indices EXCEPT ![p] = idx]
    /\ calls' = [calls EXCEPT ![p] = MatcherCall(@, LastLayer, targets[p])]
    /\ pc' = [pc EXCEPT ![p] = "count"]
    /\ UNCHANGED <<envVars, step, targets, loaded, outputs, dumpVars, reduce_in, num_boxes,
                   losses, aux_i, target_classes, box_losses, pp, main>>

\* lines 420-424 without a process group: the local count, clamped
CountLocal(p) ==
    /\ pc[p] = "count"
    /\ ~dist
    /\ num_boxes' = [num_boxes EXCEPT ![p] = Some(ClampNumBoxes(LocalCount(targets[p]), world_size))]
    /\ pc' = [pc EXCEPT ![p] = "losses"]
    /\ UNCHANGED <<envVars, step, targets, loaded, outputs, dumpVars, indices, calls,
                   reduce_in, losses, aux_i, target_classes, box_losses, pp, main>>

\* lines 420-423 with a process group: p enters all_reduce with its count
EnterAllReduce(p) ==
    /\ pc[p] = "count"
    /\ dist
    /\ reduce_in' = [reduce_in EXCEPT ![p] = Some(LocalCount(targets[p]))]
    /\ pc' = [pc EXCEPT ![p] = "all_reduce"]
    /\ UNCHANGED <<envVars, step, targets, loaded, outputs, dumpVars, indices, calls,
                   num_boxes, losses, aux_i, target_classes, box_losses, pp, main>>

\* torch.distributed.all_reduce: once every process of the group has
\* entered, each leaves with the sum; line 424 clamps it
AllReduce ==
    /\ \A p \in Procs : pc[p] = "all_reduce"
    /\ LET total == SumSeq([p \in Procs |-> Val(reduce_in[p])])
       IN  num_boxes' = [p \in Procs |-> Some(ClampNumBoxes(total, world_size))]
    /\ reduce_in' = [p \in Procs |-> None]
    /\ pc' = [p \in Procs |-> "losses"]
    /\ UNCHANGED <<envVars, step, targets, loaded, outputs, dumpVars, indices, calls,
                   losses, aux_i, target_classes, box_losses, pp, main>>

\* loss_masks, lines 316-322: target_masks holds the "masks" of the batch,
\* each padded to the most rows an image has, and is indexed with tgt_idx,
\* the image and target number of every pair of the assignment; a target
\* number beyond the rows is an IndexError
MaskIndexError(tgts, idx) ==
    LET rows == CHOOSE n \in {Len(tgts[b].masks) : b \in 1..Len(tgts)} :
                    \A b \in 1..Len(tgts) : Len(tgts[b].masks) <= n
        tgt_idx == get_tgt_permutation_idx(idx)
    IN  \E k \in 1..Len(tgt_idx[2]) : tgt_idx[2][k] >= rows

\* lines 427-429: the terms of the last layer, in the order of self.losses:
\* labels, boxes, cardinality and, when asked for, masks, whose IndexError
\* leaves forward without a bundle
LossesLast(p) ==
    /\ pc[p] = "losses"
    /\ target_classes' = [target_classes EXCEPT ![p] =
            TargetClasses(targets[p], indices[p], Len(targets[p]), cfg.num_queries, NumClasses)]
    /\ box_losses' = [box_losses EXCEPT ![p] =
            loss_boxes(outputs[p].pred_boxes, targets[p], indices[p], Val(num_boxes[p]))]
    /\ IF cfg.masks /\ MaskIndexError(targets[p], indices[p])
       THEN /\ pc' = [pc EXCEPT ![p] = "raised"]
            /\ UNCHANGED <<losses, aux_i>>
       ELSE /\ losses' = [losses EXCEPT ![p] = LastLayerLosses(LossKinds(cfg.masks), <<>>)]
            /\ aux_i' = [aux_i EXCEPT ![p] = 0]
            /\ pc' = [pc EXCEPT ![p] =
                    IF outputs[p].aux_outputs # None /\ Len(Val(outputs[p].aux_outputs)) > 0
                    THEN "aux" ELSE "return"]
    /\ UNCHANGED <<envVars, step, targets, loaded, outputs, dumpVars, indices, calls,
                   reduce_in, num_boxes, pp, main>>

\* lines 433-445, one round of the loop over outputs['aux_outputs']
AuxLayer(p, all) ==
    /\ pc[p] = "aux"
    /\ LET aux == Val(outputs[p].aux_outputs)
           i == AuxOrder(Len(aux))[aux_i[p] + 1]
       IN  /\ \E idx \in MatcherResults(all, cfg.num_queries, targets[p]) :
                /\ indices' = [indices EXCEPT ![p] = idx]
                /\ target_classes' = [target_classes EXCEPT ![p] =
                      TargetClasses(targets[p], idx, Len(targets[p]), cfg.num_queries, NumClasses)]
                /\ box_losses' = [box_losses EXCEPT ![p] =
                      loss_boxes(aux[i + 1].pred_boxes, targets[p], idx, Val(num_boxes[p]))]
           /\ calls' = [calls EXCEPT ![p] = MatcherCall(@, i, targets[p])]
           /\ losses' = [losses EXCEPT ![p] = AuxLayerLosses(LossKinds(cfg.masks), i, @)]
           /\ aux_i' = [aux_i EXCEPT ![p] = @ + 1]
           /\ pc' = [pc EXCEPT ![p] = IF aux_i[p] + 1 < Len(aux) THEN "aux" ELSE "return"]
    /\ UNCHANGED <<envVars, step, targets, loaded, outputs, dumpVars, reduce_in, num_boxes, pp, main>>

\* line 447: forward returns the bundle; the iteration is over
Return(p) ==
    /\ pc[p] = "return"
    /\ step' = [step EXCEPT ![p] = @ + 1]
    /\ pc' = [pc EXCEPT ![p] = "idle"]
    /\ UNCHANGED <<envVars, targets, loaded, outputs, dumpVars, critVars, pp, main>>

----------------------------------------------------------------------------
(* Specifications *)

\* PostProcess is not run during training
NoPostProcess == [pc |-> "off"]

\* main has built the model and the criterion and runs its loop
Started == [pc |-> "run"]

\* the steps every specification of the criterion shares
Common(p) ==
    \/ FolderExists(p)
    \/ Makedirs(p)
    \/ ModelOpen(p)
    \/ ModelWrite(p)
    \/ ModelDump(p)
    \/ CritRead(p)
    \/ CritOpen(p)
    \/ CritWrite(p)
    \/ CritDump(p)
    \/ Augment(p)
    \/ LossesLast(p)
    \/ Return(p)

\* Spec: one process without a process group, every augmentation setting
\* and slot count, no auxiliary outputs
Init ==
    /\ InitProcs(1, FALSE,
                 {c \in Configs(1..MaxQ, {1}, {BatchSize}) : ~c.masks /\ ~c.aux_loss})
    /\ pp = NoPostProcess
    /\ main = Started

Next ==
    \E p \in Procs :
        \/ StartIteration(p, <<InstLists(MaxInst)>>, {0})
        \/ Common(p)
        \/ Match(p, FALSE)
        \/ CountLocal(p)

Spec == Init /\ [][Next]_vars

\* SpecDist: the processes of a data-parallel run started in one working
\* directory, which share it and meet in all_reduce; also one process with and without a
\* process group.  Batches of one image with at most one instance, with
\* and without a ratio.
DistConfigs ==
    {c \in Configs({MaxQ}, {1}, {1}) :
        /\ c.training /\ ~c.masks /\ ~c.aux_loss
        /\ c.repeat_label = None
        /\ c.repeat_ratio \in {None, Some(<<3, 4>>)}}

InitDist ==
    /\ \E ws \in 1..MaxProcs, d \in BOOLEAN :
          /\ ws > 1 => d
          /\ InitProcs(ws, d, DistConfigs)
    /\ pp = NoPostProcess
    /\ main = Started

NextDist ==
    \/ \E p \in Procs :
          \/ StartIteration(p, <<FewLists>>, {0})
          \/ Common(p)
          \/ CritReadRaises(p)
          \/ Match(p, FALSE)
          \/ CountLocal(p)
          \/ EnterAllReduce(p)
    \/ AllReduce

SpecDist == InitDist /\ [][NextDist]_vars

\* SpecNodes: the processes of a data-parallel run, each started in a
\* working directory of its own, which meet in all_reduce only; also one
\* process with and without a process group.  Batches as in SpecDist.
InitSpecNodes ==
    /\ \E ws \in 1..MaxProcs, d \in BOOLEAN :
          /\ ws > 1 => d
          /\ InitNodes(ws, d, DistConfigs)
    /\ pp = NoPostProcess
    /\ main = Started

NextNodes ==
    \/ \E p \in Procs :
          \/ StartIteration(p, <<FewLists>>, {0})
          \/ Common(p)
          \/ Match(p, FALSE)
          \/ CountLocal(p)
          \/ EnterAllReduce(p)
    \/ AllReduce

SpecNodes == InitSpecNodes /\ [][NextNodes]_vars

\* SpecLayers: one process, with and without auxiliary outputs of up to
\* MaxAux layers, with and without mask losses, with and without repeated
\* labels; batches of one image
LayerConfigs ==
    {c \in Configs({2}, 1..(MaxAux + 1), {1}) :
        /\ c.repeat_label \in {None, Some(2)}
        /\ c.repeat_ratio = None}

InitLayers ==
    /\ InitProcs(1, FALSE, LayerConfigs)
    /\ pp = NoPostProcess
    /\ main = Started

NextLayers ==
    \E p \in Procs :
        \/ StartIteration(p, <<InstLists(MaxInst)>>, {0})
        \/ Common(p)
        \/ Match(p, FALSE)
        \/ CountLocal(p)
        \/ AuxLayer(p, FALSE)

SpecLayers == InitLayers /\ [][NextLayers]_vars

\* SpecLoss: one process in training without augmentation, with and
\* without one auxiliary layer, every assignment the matcher may return;
\* batches of an image with up to MaxInst instances and one with at most one
LossConfigs ==
    {c \in Configs(1..(MaxInst + 1), {2}, {BatchSize}) :
        /\ c.training /\ ~c.masks
        /\ c.repeat_label = None /\ c.repeat_ratio = None}

InitLoss ==
    /\ InitProcs(1, FALSE, LossConfigs)
    /\ pp = NoPostProcess
    /\ main = Started

NextLoss ==
    \E p \in Procs :
        \/ StartIteration(p, <<PrefixLists(MaxInst), FewLists>>, {0, 1})
        \/ Common(p)
        \/ Match(p, TRUE)
        \/ CountLocal(p)
        \/ AuxLayer(p, TRUE)

SpecLoss == InitLoss /\ [][NextLoss]_vars

\* SpecMatch: one process in training mode with a fixed repeat count or
\* none, every slot count, with and without one auxiliary layer; batches of
\* one image with the first n instances; every assignment the matcher may
\* return for the last layer
MatchConfigs ==
    {c \in Configs(1..MaxQ, {2}, {1}) :
        /\ c.training /\ ~c.masks
        /\ c.repeat_ratio = None}

InitMatch ==
    /\ InitProcs(1, FALSE, MatchConfigs)
    /\ pp = NoPostProcess
    /\ main = Started

NextMatch ==
    \E p \in Procs :
        \/ StartIteration(p, <<PrefixLists(MaxInst)>>, {0})
        \/ Common(p)
        \/ Match(p, TRUE)
        \/ CountLocal(p)
        \/ AuxLayer(p, FALSE)

SpecMatch == InitMatch /\ [][NextMatch]_vars

\* SpecNorm: the processes of a data-parallel run, each started in a
\* working directory of its own, or one process with and without a process
\* group, in training mode with a ratio or a fixed repeat count and one
\* auxiliary layer; batches of one image with at most one instance
NormConfigs ==
    {c \in Configs({MaxQ}, {2}, {1}) :
        /\ c.training /\ ~c.masks /\ c.aux_loss
        /\ \/ c.repeat_label = Some(MaxRepeat)
           \/ c.repeat_ratio = Some(<<3, 4>>)}

InitNorm ==
    /\ \E ws \in 1..MaxProcs, d \in BOOLEAN :
          /\ ws > 1 => d
          /\ InitNodes(ws, d, NormConfigs)
    /\ pp = NoPostProcess
    /\ main = Started

NextNorm ==
    \/ \E p \in Procs :
          \/ StartIteration(p, <<FewLists>>, {0})
          \/ Common(p)
          \/ Match(p, FALSE)
          \/ CountLocal(p)
          \/ EnterAllReduce(p)
          \/ AuxLayer(p, FALSE)
    \/ AllReduce

SpecNorm == InitNorm /\ [][NextNorm]_vars

\* SpecRepeat: one process in training mode with a ratio, whose loop hands
\* the criterion in a later iteration the target dicts it has augmented in
\* the iteration before; batches of one image
RepeatConfigs ==
    {c \in Configs(1..MaxQ, {1}, {1}) :
        /\ c.training /\ ~c.masks /\ ~c.aux_loss
        /\ c.repeat_ratio # None}

InitRepeat ==
    /\ InitProcs(1, FALSE, RepeatConfigs)
    /\ pp = NoPostProcess
    /\ main = Started

NextRepeat ==
    \E p \in Procs :
        \/ StartIteration(p, <<InstLists(MaxInst)>>, {0})
        \/ LaterIteration(p, <<InstLists(MaxInst)>>, {0}, TRUE)
        \/ Common(p)
        \/ Match(p, FALSE)
        \/ CountLocal(p)

SpecRepeat == InitRepeat /\ [][NextRepeat]_vars

\* SpecDump: one process whose loop runs MaxSteps iterations, each a
\* DETR.forward on a fresh batch of BatchSize images followed by one
\* SetCriterion.forward on the targets of that batch; with and without a
\* fixed repeat count, in training and in eval mode
DumpConfigs ==
    {c \in Configs({2}, {1}, {BatchSize}) :
        /\ ~c.masks /\ ~c.aux_loss
        /\ c.repeat_label \in {None, Some(MaxRepeat)}
        /\ c.repeat_ratio = None}

InitDump ==
    /\ InitProcs(1, FALSE, DumpConfigs)
    /\ pp = NoPostProcess
    /\ main = Started

NextDump ==
    \E p \in Procs :
        \/ StartIteration(p, <<FewLists>>, {0})
        \/ LaterIteration(p, <<FewLists>>, {0}, FALSE)
        \/ Common(p)
        \/ Match(p, FALSE)
        \/ CountLocal(p)

SpecDump == InitDump /\ [][NextDump]_vars

----------------------------------------------------------------------------
(* PostProcess.forward, lines 460-508 *)

\* keep_[:100], line 493
TopK == 100

\* nms_thresh and nms_remove of PostProcess.__init__, as rationals
NmsThresh == <<7, 10>>
NmsRemove == <<1, 100>>

\* the indices 0 .. n-1 by decreasing score, equal scores in index order
SortByScore(n, scores) ==
    LET Before(j, i) == scores[j + 1] > scores[i + 1] \/ (scores[j + 1] = scores[i + 1] /\ j < i)
        rank == [k \in 1..n |-> Cardinality({j \in 0..(n - 1) : Before(j, k - 1)})] \o <<>>
    IN  [r \in 1..n |-> (CHOOSE k \in 1..n : rank[k] = r - 1) - 1] \o <<>>

\* IoU of two corner boxes above the threshold
IouAbove(c, d, thresh) == box_inter(c, d) * thresh[2] > thresh[1] * box_union(c, d)

\* one step of the greedy pass: index i is kept unless a kept index of the
\* same class overlaps it beyond the threshold
NmsStep(i, kept, boxes, labels, thresh) ==
    IF \E k \in 1..Len(kept) :
          /\ labels[kept[k] + 1] = labels[i + 1]
          /\ IouAbove(boxes[kept[k] + 1], boxes[i + 1], thresh)
    THEN kept
    ELSE Append(kept, i)

RECURSIVE GreedyNms(_, _, _, _, _)
\* the greedy pass over the indices rest, which are in score order, after
\* the pass over the indices before them has kept the indices kept: the
\* pass over the first half of rest, then the pass over the second half
\* with what the first has kept
GreedyNms(rest, kept, boxes, labels, thresh) ==
    IF rest = <<>> THEN kept
    ELSE IF Len(rest) = 1 THEN NmsStep(rest[1], kept, boxes, labels, thresh)
    ELSE LET half == Len(rest) \div 2
         IN  CHOOSE r \in {GreedyNms(SubSeq(rest, half + 1, Len(rest)), k, boxes, labels, thresh) :
                            k \in {GreedyNms(SubSeq(rest, 1, half), kept, boxes, labels, thresh)}} : TRUE

\* torchvision.ops.batched_nms(boxes, scores, idxs, iou_threshold): the kept
\* indices by decreasing score
batched_nms(boxes, scores, labels, thresh) ==
    GreedyNms(SortByScore(Len(scores), scores), <<>>, boxes, labels, thresh)

\* line 486-488: the indices of 0 .. num_queries-1 not in keep_, ascending
NonKeep(n, keep) ==
    LET kept == Range(keep)
        Dropped(i) == i \notin kept
    IN  SelectSeq([k \in 1..n |-> k - 1], Dropped)

\* variant of DecayScores that decays every score
DecayEveryScore(scores, non_keep, remove) ==
    [k \in 1..Len(scores) |-> (scores[k] * remove[1]) \div remove[2]]

\* line 490: score_[non_keep_] *= self.nms_remove
DecayScores(scores, non_keep, remove) ==
    LET dropped == Range(non_keep)
    IN  [k \in 1..Len(scores) |->
            IF (k - 1) \in dropped THEN (scores[k] * remove[1]) \div remove[2] ELSE scores[k]] \o <<>>

\* variant of TopKIndexes that drops the suppressed indices
TopKIndexesKept(keep, non_keep) == SubSeq(keep, 1, Min(Len(keep), TopK))

\* lines 492-493: cat([keep_, non_keep_])[:100]
TopKIndexes(keep, non_keep) == SubSeq(keep \o non_keep, 1, Min(Len(keep) + Len(non_keep), TopK))

\* line 504: a corner box times scale_fct = (img_w, img_h, img_w, img_h);
\* size is the image's row of target_sizes, (height, width)
ScaleBox(c, size) == <<c[1] * size[2], c[2] * size[1], c[3] * size[2], c[4] * size[1]>>

\* the result dict of one image; slots is topk_indexes, the input slot of
\* every output position (the slots in their order without suppression),
\* and keep the keep_ of line 483
PostProcessImage(nms, num_queries, scores, labels, out_bbox, size) ==
    LET boxes == [k \in 1..Len(out_bbox) |-> box_cxcywh_to_xyxy(out_bbox[k])] \o <<>>
        keep == batched_nms(boxes, scores, labels, NmsThresh)
        non_keep == NonKeep(num_queries, keep)
        topk == TopKIndexes(keep, non_keep)
        decayed == DecayScores(scores, non_keep, NmsRemove)
    IN  IF nms
        THEN [scores |-> Gather(decayed, topk),
              labels |-> Gather(labels, topk),
              boxes  |-> [k \in 1..Len(topk) |-> ScaleBox(boxes[topk[k] + 1], size)],
              slots  |-> topk,
              keep   |-> keep]
        ELSE [scores |-> scores,
              labels |-> labels,
              boxes  |-> [k \in 1..Len(boxes) |-> ScaleBox(boxes[k], size)],
              slots  |-> [k \in 1..Len(scores) |-> k - 1],
              keep   |-> <<>>]

\* the grid coordinate that stands for 1.0 of a normalized box (line 501):
\* a coordinate c of out_bbox is c / GridOne
GridOne == 8

\* what the network predicts for one slot: the best class other than
\* no-object with its probability (line 474), and the box, every
\* coordinate in [0, 1]
SlotSet ==
    { [score |-> 90000, label |-> 0, box |-> <<4, 4, 4, 4>>],
      [score |-> 80000, label |-> 0, box |-> <<4, 4, 4, 4>>],
      [score |-> 80000, label |-> 0, box |-> <<4, 4, 4, 3>>],
      [score |-> 80000, label |-> 1, box |-> <<4, 4, 4, 3>>],
      [score |-> 90000, label |-> 0, box |-> <<5, 4, 4, 4>>],
      [score |-> 70000, label |-> 1, box |-> <<1, 4, 4, 4>>] }

\* the slot counts explored: the small ones and one above the 100 of line 493
SlotCounts == (1..MaxSlots) \cup {TopK + 1}

\* the predictions of one image: num_queries slots that repeat a pattern
\* of len slots
SlotsOf(pattern, num_queries) ==
    [k \in 1..num_queries |-> pattern[((k - 1) % Len(pattern)) + 1]]

\* the patterns explored for num_queries slots: every slot on its own up to
\* MaxSlots, a period of two above
Patterns(num_queries) ==
    [1..(IF num_queries <= MaxSlots THEN num_queries ELSE Min(num_queries, 2)) -> SlotSet]

\* target_sizes, (height, width) of image 1 and 2
TargetSizes == << <<3, 5>>, <<4, 2>> >>

\* the inputs of a call: one image, or two with a second image whose slots
\* all predict the same
InitPost ==
    \E nms \in BOOLEAN, q \in SlotCounts, bs \in 1..2 :
        \E p1 \in Patterns(q), p2 \in [1..1 -> SlotSet] :
            pp = [pc |-> "ready", nms |-> nms, num_queries |-> q,
                  scores |-> [b \in 1..bs |-> [k \in 1..q |-> SlotsOf(IF b = 1 THEN p1 ELSE p2, q)[k].score]],
                  labels |-> [b \in 1..bs |-> [k \in 1..q |-> SlotsOf(IF b = 1 THEN p1 ELSE p2, q)[k].label]],
                  out_bbox |-> [b \in 1..bs |-> [k \in 1..q |-> SlotsOf(IF b = 1 THEN p1 ELSE p2, q)[k].box]],
                  target_sizes |-> [b \in 1..bs |-> TargetSizes[b]],
                  keep |-> <<>>, topk_indexes |-> <<>>, results |-> <<>>]

\* PostProcess.forward
PostProcessForward ==
    /\ pp.pc = "ready"
    /\ \E res \in {[b \in 1..Len(pp.scores) |->
                    PostProcessImage(pp.nms, pp.num_queries, pp.scores[b], pp.labels[b],
                                     pp.out_bbox[b], pp.target_sizes[b])]} :
           pp' = [pp EXCEPT
                    !.pc = "done",
                    !.keep = [b \in 1..Len(res) |-> res[b].keep],
                    !.topk_indexes = [b \in 1..Len(res) |-> res[b].slots],
                    !.results = [b \in 1..Len(res) |->
                        [scores |-> res[b].scores, labels |-> res[b].labels, boxes |-> res[b].boxes]]]
    /\ UNCHANGED <<envVars, pc, step, targets, loaded, outputs, dumpVars, critVars, main>>

\* SpecPost: calls of PostProcess.forward; no training process runs
InitSpecPost ==
    /\ InitProcs(1, FALSE, {c \in Configs({1}, {1}, {1}) :
            c.training /\ ~c.masks /\ ~c.aux_loss /\ c.repeat_label = None /\ c.repeat_ratio = None})
    /\ InitPost
    /\ main = Started

NextPost == PostProcessForward

SpecPost == InitSpecPost /\ [][NextPost]_vars

----------------------------------------------------------------------------
(* Start-up: main(args) up to its loop, and build() *)

\* the command lines explored: the arguments the start-up checks read
ArgSets ==
    [ms_roi : BOOLEAN, num_feature_levels : {1, 3, 4},
     frozen_weights : {None, Some("detr.pth")}, masks : BOOLEAN,
     repeat_label : {None, Some(MaxRepeat)}, repeat_ratio : {None, Some(<<3, 4>>)},
     eval : BOOLEAN, aux_loss : {FALSE}, dec_layers : {1}]

\* variant of MainAsserts without the check of the feature levels
MainAssertsFrozenOnly(args) == args.frozen_weights # None => args.masks

\* main, lines 152-155: whether both assert statements pass
MainAsserts(args) ==
    /\ args.frozen_weights # None => args.masks
    /\ args.ms_roi = FALSE => args.num_feature_levels = 1

\* variant of SetCriterionInit that accepts every pair
SetCriterionInitAny(repeat_label, repeat_ratio) == TRUE

\* SetCriterion.__init__, line 247: whether the assert statement passes
SetCriterionInit(repeat_label, repeat_ratio) == repeat_label = None \/ repeat_ratio = None

\* the configuration the criterion and the loop work with under args; the
\* criterion is in eval mode under --eval (line 272)
ConfigOf(args) ==
    [training |-> ~args.eval, repeat_label |-> args.repeat_label,
     repeat_ratio |-> args.repeat_ratio, num_queries |-> MaxQ, masks |-> args.masks,
     aux_loss |-> args.aux_loss, dec_layers |-> args.dec_layers, batch_size |-> 1]

\* variant of WeightDict without the keys of the auxiliary layers
WeightDictLastLayer(masks, aux_loss, dec_layers) ==
    IF masks
    THEN [loss_ce |-> 1, loss_bbox |-> 5, loss_giou |-> 2, loss_mask |-> 1, loss_dice |-> 1]
    ELSE [loss_ce |-> 1, loss_bbox |-> 5, loss_giou |-> 2]

RECURSIVE AuxWeightDict(_, _, _)
\* lines 563-564: aux_weight_dict after the rounds i .. n-1 of the loop,
\* each adding every entry of weight_dict under the key k + f'_{i}'
AuxWeightDict(weight_dict, i, n) ==
    IF i >= n THEN <<>>
    ELSE Update([key \in {AuxKey(k, i) : k \in DOMAIN weight_dict} |->
                    weight_dict[CHOOSE k \in DOMAIN weight_dict : AuxKey(k, i) = key]],
                AuxWeightDict(weight_dict, i + 1, n))

\* build, lines 555-565: weight_dict, with the default coefficients of
\* main.py (bbox 5, giou 2, mask 1, dice 1)
WeightDict(masks, aux_loss, dec_layers) ==
    LET weight_dict ==
            IF masks
            THEN [loss_ce |-> 1, loss_bbox |-> 5, loss_giou |-> 2, loss_mask |-> 1, loss_dice |-> 1]
            ELSE [loss_ce |-> 1, loss_bbox |-> 5, loss_giou |-> 2]
    IN  IF aux_loss
        THEN Update(weight_dict, AuxWeightDict(weight_dict, 0, dec_layers - 1))
        ELSE weight_dict

\* main, lines 152-155: an AssertionError ends the program, otherwise main
\* goes on toward build_model
MainChecks ==
    /\ main.pc = "start"
    /\ main' = [main EXCEPT !.pc = IF MainAsserts(main.args) THEN "build" ELSE "failed"]
    /\ UNCHANGED <<envVars, pc, step, targets, loaded, outputs, dumpVars, critVars, pp>>

\* main, line 185: build_model(args), that is build(): the DETR model is
\* constructed (line 542), then the criterion (line 570), whose __init__
\* may raise; main enters its loop with both, the criterion holding the
\* weight_dict of lines 555-565
Build ==
    /\ main.pc = "build"
    /\ main' = [main EXCEPT
                  !.model = TRUE,
                  !.criterion = SetCriterionInit(main.args.repeat_label, main.args.repeat_ratio),
                  !.weight_dict = IF SetCriterionInit(main.args.repeat_label, main.args.repeat_ratio)
                                  THEN WeightDict(main.args.masks, main.args.aux_loss,
                                                  main.args.dec_layers)
                                  ELSE @,
                  !.pc = IF SetCriterionInit(main.args.repeat_label, main.args.repeat_ratio)
                         THEN "run" ELSE "failed"]
    /\ UNCHANGED <<envVars, pc, step, targets, loaded, outputs, dumpVars, critVars, pp>>

\* SpecStartup: main from its first line, for every command line of ArgSets,
\* followed by one iteration on a batch of one image
InitStartup ==
    /\ \E args \in ArgSets :
          /\ main = [pc |-> "start", args |-> args, model |-> FALSE, criterion |-> FALSE,
                     weight_dict |-> <<>>]
          /\ InitProcs(1, FALSE, {ConfigOf(args)})
    /\ pp = NoPostProcess

NextStartup ==
    \/ MainChecks
    \/ Build
    \/ \E p \in Procs :
          \/ StartIteration(p, <<FewLists>>, {0})
          \/ Common(p)
          \/ Match(p, FALSE)
          \/ CountLocal(p)

SpecStartup == InitStartup /\ [][NextStartup]_vars

\* the command lines that differ in the losses asked for: with and without
\* masks and auxiliary losses, 1 to MaxAux + 1 decoder layers
LossArgSets ==
    [ms_roi : {TRUE}, num_feature_levels : {3}, frozen_weights : {None}, masks : BOOLEAN,
     repeat_label : {None}, repeat_ratio : {None}, eval : {FALSE},
     aux_loss : BOOLEAN, dec_layers : 1..(MaxAux + 1)]

\* SpecBuild: main builds model and criterion for a command line of
\* LossArgSets, then one iteration on a batch of one image gives the bundle
InitBuild ==
    /\ \E args \in LossArgSets :
          /\ main = [pc |-> "start", args |-> args, model |-> FALSE, criterion |-> FALSE,
                     weight_dict |-> <<>>]
          /\ InitProcs(1, FALSE, {ConfigOf(args)})
    /\ pp = NoPostProcess

NextBuild ==
    \/ MainChecks
    \/ Build
    \/ \E p \in Procs :
          \/ StartIteration(p, <<FewLists>>, {0})
          \/ Common(p)
          \/ Match(p, FALSE)
          \/ CountLocal(p)
          \/ AuxLayer(p, FALSE)

SpecBuild == InitBuild /\ [][NextBuild]_vars

----------------------------------------------------------------------------
(* Vocabulary of the properties *)

\* process p has gone through lines 385-412 in its current forward call
Augmented(p) == pc[p] \in {"match", "count", "all_reduce", "losses", "aux", "return"}

\* row k of a target dict: the four per-instance fields side by side
Row(t, k) == <<t.labels[k], t.boxes[k], t.area[k], t.iscrowd[k]>>

\* the four per-instance fields all have n rows
HasRows(t, n) ==
    Len(t.labels) = n /\ Len(t.boxes) = n /\ Len(t.area) = n /\ Len(t.iscrowd) = n

\* how many rows of t equal row k of the target dict t0
Occurrences(t, t0, k) == Cardinality({j \in 1..Len(t.labels) : Row(t, j) = Row(t0, k)})

\* image b of process p is one the ratio augmentation rewrites: training
\* mode, a ratio set, and 0 < n < f
RatioCase(p, b) ==
    /\ cfg.training
    /\ cfg.repeat_ratio # None
    /\ Len(loaded[p][b].labels) > 0
    /\ Len(loaded[p][b].labels) < NumFore(Val(cfg.repeat_ratio), cfg.num_queries)

----------------------------------------------------------------------------
(* C1: under ratio augmentation an image with 0 < n < f = floor(ratio * Q)  *)
(* instances ends with exactly f instances; every original instance occurs  *)
(* floor(f/n) or floor(f/n) + 1 times, and exactly f mod n of them occur    *)
(* floor(f/n) + 1 times.                                                    *)
C1_RatioAugmentationCounts ==
    \A p \in Procs : Augmented(p) =>
        \A b \in 1..Len(targets[p]) : RatioCase(p, b) =>
            LET n == Len(loaded[p][b].labels)
                f == NumFore(Val(cfg.repeat_ratio), cfg.num_queries)
                t == targets[p][b]
            IN  /\ HasRows(t, f)
                /\ \A k \in 1..n :
                      Occurrences(t, loaded[p][b], k) \in {f \div n, (f \div n) + 1}
                /\ Cardinality({k \in 1..n :
                      Occurrences(t, loaded[p][b], k) = (f \div n) + 1}) = f % n
                /\ \A j \in 1..f : \E k \in 1..n : Row(t, j) = Row(loaded[p][b], k)

\* an image with n = 2 instances was augmented to f = 3: one full repeat and
\* one sampled duplicate
C1_Witness ==
    \E p \in Procs : Augmented(p) /\ \E b \in 1..Len(targets[p]) :
        /\ RatioCase(p, b)
        /\ Len(loaded[p][b].labels) = 2
        /\ NumFore(Val(cfg.repeat_ratio), cfg.num_queries) = 3
        /\ Len(targets[p][b].labels) = 3

(* C2: after the augmentation of an image that had n instances, the        *)
(* 'repeat' flags have one entry per row of the augmented target set, the   *)
(* first n are 1 and all the others 0, so exactly n rows are marked         *)
(* original.  Stated for the images the ratio augmentation rewrites.        *)
C2_FlagsCoverEveryRow ==
    \A p \in Procs : Augmented(p) =>
        \A b \in 1..Len(targets[p]) : RatioCase(p, b) =>
            LET n == Len(loaded[p][b].labels)
                t == targets[p][b]
            IN  /\ "repeat" \in DOMAIN t
                /\ Len(t.repeat) = Len(t.labels)
                /\ Len(t.repeat) = Len(t.boxes)
                /\ \A k \in 1..Len(t.repeat) : t.repeat[k] = (IF k <= n THEN 1 ELSE 0)
                /\ Cardinality({k \in 1..Len(t.repeat) : t.repeat[k] = 1}) = n

----------------------------------------------------------------------------
\* the target instances all processes hold, as their forward calls count them
GlobalCount == SumSeq([q \in Procs |-> LocalCount(targets[q])])

(* C3: every process obtains the same num_boxes, the sum over all          *)
(* processes of their local target counts divided by the world size and     *)
(* floored at 1; with world size 1 the floor applies only to a sum of 0.    *)
C3_SameNormalizer ==
    \A p \in Procs : num_boxes[p] # None =>
        LET nb == Val(num_boxes[p])
        IN  /\ nb[2] > 0
            /\ IF GlobalCount >= world_size
               THEN nb[1] * world_size = GlobalCount * nb[2]
               ELSE nb[1] = nb[2]
            /\ (world_size = 1 /\ nb = <<1, 1>>) => GlobalCount \in {0, 1}
            /\ \A q \in Procs : num_boxes[q] # None => num_boxes[q] = num_boxes[p]

\* two processes left all_reduce with 3 / 2: one image augmented to three
\* instances, one image without objects
C3_Witness ==
    /\ world_size = 2
    /\ GlobalCount = 3
    /\ \A p \in Procs : pc[p] = "losses" /\ num_boxes[p] = Some(<<3, 2>>)

(* C4: in distributed mode every call of SetCriterion.forward performs the *)
(* all-reduce, whatever happens in the steps before it: no call leaves      *)
(* forward before line 423, so no process waits in the collective for one   *)
(* that never enters it.                                                    *)
C4_EveryCallEntersAllReduce ==
    dist => \A p \in Procs : pc[p] = "raised" => num_boxes[p] # None

----------------------------------------------------------------------------
(* PostProcess *)

PostDone == pp.pc = "done"
Images == 1..Len(pp.results)
\* the slots kept by the class-aware suppression of image b
KeepOf(b) == Range(pp.keep[b])
\* the output of image b has n detections
Detections(b, n) ==
    /\ Len(pp.results[b].scores) = n
    /\ Len(pp.results[b].labels) = n
    /\ Len(pp.results[b].boxes) = n
    /\ Len(pp.topk_indexes[b]) = n
\* no slot is twice in the output of image b
NoSlotRepeated(b) == Cardinality(Range(pp.topk_indexes[b])) = Len(pp.topk_indexes[b])
\* every slot is in the output of image b
NoSlotDropped(b) == Range(pp.topk_indexes[b]) = 0..(pp.num_queries - 1)

\* the slots of image b that are not in its output
Missing(b) == (0..(pp.num_queries - 1)) \ Range(pp.topk_indexes[b])

\* C5 as stated: every image gets exactly Q detections, with and without
\* suppression, and with suppression the output is a permutation of all Q
\* slots, for any Q.
C5_AlwaysAllSlots ==
    PostDone => \A b \in Images :
        /\ Detections(b, pp.num_queries)
        /\ pp.nms => NoSlotRepeated(b) /\ NoSlotDropped(b)

\* C5, amended: without suppression every image gets exactly Q detections,
\* the slots in their order; with suppression it gets exactly min(Q, 100)
\* detections of pairwise distinct slots, which are all Q slots when
\* Q <= 100.
C5_SlotsUpToTopK ==
    PostDone => \A b \in Images :
        /\ ~pp.nms => /\ Detections(b, pp.num_queries)
                      /\ \A k \in 1..pp.num_queries : pp.topk_indexes[b][k] = k - 1
        /\ pp.nms => /\ Detections(b, Min(pp.num_queries, TopK))
                     /\ NoSlotRepeated(b)
                     /\ Range(pp.topk_indexes[b]) \subseteq 0..(pp.num_queries - 1)
                     /\ pp.num_queries <= TopK => NoSlotDropped(b)

\* suppression is on, there are more than 100 slots and the output has 100
C5_Witness ==
    /\ PostDone /\ pp.nms /\ pp.num_queries = TopK + 1
    /\ \A b \in Images : Detections(b, TopK) /\ Missing(b) # {}

\* the scores of the output of image b: a kept slot has its score, a
\* suppressed slot its score times the decay factor
ScoresDecayedOnce(b) ==
    LET kept == KeepOf(b)
    IN  \A k \in 1..Len(pp.topk_indexes[b]) :
            LET slot == pp.topk_indexes[b][k]
                out == pp.results[b].scores[k]
                in == pp.scores[b][slot + 1]
            IN  /\ pp.results[b].labels[k] = pp.labels[b][slot + 1]
                /\ IF slot \in kept THEN out = in
                   ELSE out * NmsRemove[2] = in * NmsRemove[1]
\* in the output of image b every kept slot precedes every suppressed one:
\* no position after a suppressed slot holds a kept one
KeptFirst(b) ==
    LET kept == KeepOf(b)
    IN  \A k \in 1..(Len(pp.topk_indexes[b]) - 1) :
            pp.topk_indexes[b][k] \notin kept => pp.topk_indexes[b][k + 1] \notin kept

\* C6 as stated: with suppression a kept slot keeps its score, every
\* suppressed slot stays in the output with its score decayed exactly once,
\* and every kept slot precedes every suppressed slot.
C6_SuppressedAlwaysStay ==
    (PostDone /\ pp.nms) => \A b \in Images :
        /\ ScoresDecayedOnce(b)
        /\ KeptFirst(b)
        /\ Missing(b) \subseteq KeepOf(b)

\* C6, amended: with suppression every slot of the output that was kept has
\* its score unchanged and every suppressed one its score decayed exactly
\* once, every kept slot of the output precedes every suppressed one, the
\* output is the first min(Q, 100) of the kept slots followed by the
\* suppressed ones, and every suppressed slot stays in it when Q <= 100.
C6_DecayedAfterKept ==
    (PostDone /\ pp.nms) => \A b \in Images :
        /\ ScoresDecayedOnce(b)
        /\ KeptFirst(b)
        /\ pp.topk_indexes[b] = SubSeq(pp.keep[b] \o NonKeep(pp.num_queries, pp.keep[b]),
                                       1, Min(pp.num_queries, TopK))
        /\ pp.num_queries <= TopK => Missing(b) = {}

\* two fully overlapping boxes of one class with scores 0.9 and 0.8: the
\* second comes after the first with score 0.008
C6_Witness ==
    /\ PostDone /\ pp.nms /\ pp.num_queries = 2
    /\ pp.scores[1] = <<90000, 80000>>
    /\ pp.labels[1][1] = pp.labels[1][2] /\ pp.out_bbox[1][1] = pp.out_bbox[1][2]
    /\ pp.topk_indexes[1] = <<0, 1>>
    /\ pp.results[1].scores = <<90000, 800>>

----------------------------------------------------------------------------
(* The loss bundle and the matcher calls *)

\* the auxiliary layers of p's outputs
NumAux(p) == IF outputs[p].aux_outputs = None THEN 0 ELSE Len(Val(outputs[p].aux_outputs))
\* the terms of the last layer
PlainTerms(masks) ==
    {"loss_ce", "class_error", "cardinality_error", "loss_bbox", "loss_giou"}
    \cup (IF masks THEN {"loss_mask", "loss_dice"} ELSE {})
\* the terms of an auxiliary layer
AuxTerms == {"loss_ce", "cardinality_error", "loss_bbox", "loss_giou"}
Suffixed(k, i) == k \o "_" \o ToString(i)

(* C7: in the bundle the last layer has each requested term under its      *)
(* plain name; auxiliary layer i has the same terms under the name with     *)
(* suffix _i, but no mask terms and no class_error; no entry of an          *)
(* auxiliary layer replaces one of the last layer or of another layer.      *)
C7_BundleKeys ==
    \A p \in Procs : pc[p] \in {"aux", "return"} =>
        LET done == aux_i[p]
        IN  /\ pc[p] = "return" => done = NumAux(p)
            /\ DOMAIN losses[p] =
                  PlainTerms(cfg.masks) \cup {Suffixed(k, i) : k \in AuxTerms, i \in 0..(done - 1)}
            /\ \A k \in PlainTerms(cfg.masks) : losses[p][k] = [layer |-> LastLayer, term |-> k]
            /\ \A k \in AuxTerms, i \in 0..(done - 1) :
                  losses[p][Suffixed(k, i)] = [layer |-> i, term |-> k]
            /\ Cardinality(DOMAIN losses[p]) =
                  Cardinality(PlainTerms(cfg.masks)) + Cardinality(AuxTerms) * done

\* a bundle with mask terms and the terms of two auxiliary layers
C7_Witness ==
    \E p \in Procs :
        /\ pc[p] = "return" /\ cfg.masks /\ NumAux(p) = 2
        /\ {"loss_mask", "class_error", "loss_ce_0", "loss_giou_1"} \subseteq DOMAIN losses[p]

\* the layers the matcher is invoked for, in order, with n auxiliary layers
ExpectedLayers(n) == <<LastLayer>> \o [k \in 1..n |-> k - 1]

(* C8: in one forward call the matcher is invoked once for the last layer  *)
(* and then once per auxiliary layer in list order, every invocation comes  *)
(* after the augmentation, and every invocation is given the targets as the *)
(* augmentation left them, which do not change while the layers are gone    *)
(* through.                                                                 *)
C8_MatcherCalls ==
    \A p \in Procs :
        /\ pc[p] \in {"m_exists", "m_makedirs", "m_open", "m_dump", "c_read", "c_open",
                    "c_dump", "augment", "match"}
              => calls[p] = <<>>
        /\ pc[p] \in {"count", "losses"} => Len(calls[p]) = 1
        /\ pc[p] = "aux" => Len(calls[p]) = 1 + aux_i[p]
        /\ pc[p] = "return" => Len(calls[p]) = 1 + NumAux(p)
        /\ \A k \in 1..Len(calls[p]) :
              /\ k <= 1 + NumAux(p)
              /\ calls[p][k].layer = ExpectedLayers(NumAux(p))[k]
              /\ calls[p][k].targets = targets[p]
        /\ calls[p] # <<>> =>
              \E perms \in [1..Len(loaded[p]) ->
                              UNION {RandPerms(Len(loaded[p][b].labels)) : b \in 1..Len(loaded[p])}] :
                  targets[p] = AugmentTargets(loaded[p], cfg.training, cfg.repeat_label,
                                              cfg.repeat_ratio, cfg.num_queries, perms)

\* three invocations, each given the one instance of the image twice
C8_Witness ==
    \E p \in Procs :
        /\ pc[p] = "return" /\ Len(calls[p]) = 3
        /\ cfg.training /\ cfg.repeat_label = Some(2)
        /\ Len(loaded[p][1].labels) = 1
        /\ \A k \in 1..3 : Len(calls[p][k].targets[1].labels) = 2

----------------------------------------------------------------------------
(* The classification targets and the box losses *)

(* C9: slot q of image b is supervised toward the label of target j when   *)
(* the assignment of image b pairs q with j, and toward the no-object class *)
(* num_classes when the assignment of image b does not contain q; the       *)
(* assignments of the other images do not matter.                           *)
C9_TargetClasses ==
    \A p \in Procs : target_classes[p] # <<>> =>
        /\ Len(target_classes[p]) = Len(targets[p])
        /\ \A b \in 1..Len(targets[p]) :
              /\ Len(target_classes[p][b]) = cfg.num_queries
              /\ \A q \in 0..(cfg.num_queries - 1) :
                    LET src == indices[p][b][1]
                        tgt == indices[p][b][2]
                        hits == {a \in 1..Len(src) : src[a] = q}
                    IN  target_classes[p][b][q + 1] =
                            IF hits # {}
                            THEN targets[p][b].labels[tgt[CHOOSE a \in hits : TRUE] + 1]
                            ELSE NumClasses

\* three slots; image 1 pairs slot 0 with its target 1 and slot 2 with its
\* target 0, image 2 pairs slot 1 with its only target
C9_Witness ==
    \E p \in Procs :
        /\ target_classes[p] # <<>>
        /\ cfg.num_queries = 3
        /\ indices[p] = << << <<0, 2>>, <<1, 0>> >>, << <<1>>, <<0>> >> >>
        /\ target_classes[p] = << <<3, NumClasses, 0>>, <<NumClasses, 0, NumClasses>> >>

\* pred_boxes of the layer the last matcher call of p was made for
LayerBoxes(p) ==
    LET l == calls[p][Len(calls[p])].layer
    IN  IF l = LastLayer THEN outputs[p].pred_boxes
        ELSE Val(outputs[p].aux_outputs)[l + 1].pred_boxes
\* the L1 distances of the pairs of image b, summed
PairL1(p, b) ==
    LET src == indices[p][b][1]
        tgt == indices[p][b][2]
    IN  SumSeq([a \in 1..Len(src) |->
            L1(LayerBoxes(p)[b][src[a] + 1], targets[p][b].boxes[tgt[a] + 1])])
\* 1 - GIoU of the pairs of image b, summed
PairGiou(p, b) ==
    LET src == indices[p][b][1]
        tgt == indices[p][b][2]
    IN  RatSum([a \in 1..Len(src) |->
            RatSub(<<1, 1>>,
                   generalized_box_iou(box_cxcywh_to_xyxy(LayerBoxes(p)[b][src[a] + 1]),
                                       box_cxcywh_to_xyxy(targets[p][b].boxes[tgt[a] + 1])))])

(* C10: loss_bbox and loss_giou are the sums over the images of the sums   *)
(* over the pairs (slot, target) of the image's assignment, each pair once  *)
(* with the slot's box and the target's box of that image, divided by       *)
(* num_boxes; an image without targets has no pair and adds zero.           *)
C10_BoxLossPairs ==
    \A p \in Procs : box_losses[p] # <<>> =>
        LET nb == Val(num_boxes[p])
            e == SumSeq([b \in 1..Len(targets[p]) |-> PairL1(p, b)])
            g == RatSum([b \in 1..Len(targets[p]) |-> PairGiou(p, b)])
            lb == box_losses[p].loss_bbox
            lg == box_losses[p].loss_giou
        IN  /\ lb = RatDiv(<<e, 1>>, nb)
            /\ lg = RatDiv(g, nb)
            /\ \A b \in 1..Len(targets[p]) : Len(targets[p][b].labels) = 0 =>
                  /\ indices[p][b] = <<<<>>, <<>>>>
                  /\ PairL1(p, b) = 0
                  /\ PairGiou(p, b) = <<0, 1>>

\* the losses of an auxiliary layer: image 1 pairs its slots with the targets
\* in reverse, image 2 has no target
C10_Witness ==
    \E p \in Procs :
        /\ box_losses[p] # <<>>
        /\ calls[p][Len(calls[p])].layer = 0
        /\ indices[p][1][2] = <<1, 0>>
        /\ Len(targets[p][2].labels) = 0
        /\ box_losses[p].loss_bbox[1] > 0

----------------------------------------------------------------------------
(* The frame of the augmentation *)

\* the augmentation of process p runs with a fixed repeat count
CountCase(p) == cfg.training /\ cfg.repeat_label # None
\* the augmentation of process p runs with a ratio
RatioMode(p) == cfg.training /\ cfg.repeat_ratio # None

(* C11: an image with n = 0 target instances has after the augmentation   *)
(* the same keys and the same contents as before, whatever augmentation is  *)
(* configured, a fixed repeat count as well as a ratio.                     *)
C11_EmptyImageUnchanged ==
    \A p \in Procs : Augmented(p) =>
        \A b \in 1..Len(targets[p]) : Len(loaded[p][b].labels) = 0 =>
            /\ DOMAIN targets[p][b] = DOMAIN loaded[p][b]
            /\ targets[p][b] = loaded[p][b]

(* C12: under ratio augmentation an image with n >= f = floor(ratio * Q)   *)
(* instances is left as it was, without a 'repeat' key; no image loses an   *)
(* instance, and every image with n > 0 ends with max(n, f) instances.      *)
C12_RatioIsLowerBound ==
    \A p \in Procs : (Augmented(p) /\ RatioMode(p)) =>
        \A b \in 1..Len(targets[p]) :
            LET n == Len(loaded[p][b].labels)
                f == (Val(cfg.repeat_ratio)[1] * cfg.num_queries) \div Val(cfg.repeat_ratio)[2]
                t == targets[p][b]
            IN  /\ n >= f => /\ DOMAIN t = DOMAIN loaded[p][b]
                             /\ t = loaded[p][b]
                /\ n > 0 => HasRows(t, Max(n, f))
                /\ \A k \in 1..n : Occurrences(t, loaded[p][b], k) >= 1

\* an image with two instances passed a ratio that asks for one
C12_Witness ==
    \E p \in Procs : Augmented(p) /\ RatioMode(p) /\ \E b \in 1..Len(targets[p]) :
        /\ Len(loaded[p][b].labels) = 2
        /\ NumFore(Val(cfg.repeat_ratio), cfg.num_queries) = 1
        /\ targets[p][b] = loaded[p][b]

(* C13: with a fixed repeat count r an image with n > 0 instances ends     *)
(* with n * r rows, every original instance r times, the first n rows the   *)
(* original instances in their order, and no original instance lost, for    *)
(* every r the command line accepts.                                        *)
C13_FixedRepeatCounts ==
    \A p \in Procs : (Augmented(p) /\ CountCase(p)) =>
        \A b \in 1..Len(targets[p]) :
            LET n == Len(loaded[p][b].labels)
                r == Val(cfg.repeat_label)
                t == targets[p][b]
            IN  n > 0 =>
                  /\ HasRows(t, n * r)
                  /\ \A k \in 1..n : Occurrences(t, loaded[p][b], k) = r
                  /\ Len(t.labels) >= n
                  /\ \A k \in 1..n : Row(t, k) = Row(loaded[p][b], k)
                  /\ \A k \in 1..n : Occurrences(t, loaded[p][b], k) >= 1

(* C14: in the augmented target set of every image the four per-instance   *)
(* fields have equal length and every row is, in all four fields, the row   *)
(* of one original instance.                                                *)
C14_FieldsStayAligned ==
    \A p \in Procs : Augmented(p) =>
        \A b \in 1..Len(targets[p]) :
            LET t == targets[p][b]
            IN  /\ HasRows(t, Len(t.labels))
                /\ \A k \in 1..Len(t.labels) :
                      \E j \in 1..Len(loaded[p][b].labels) : Row(t, k) = Row(loaded[p][b], j)

\* an image with two instances got a third row, the sampled copy of its
\* second instance
C14_Witness ==
    \E p \in Procs : Augmented(p) /\ \E b \in 1..Len(targets[p]) :
        /\ RatioCase(p, b)
        /\ Len(loaded[p][b].labels) = 2
        /\ Len(targets[p][b].labels) = 3
        /\ Row(targets[p][b], 3) = Row(loaded[p][b], 2)
        /\ Row(loaded[p][b], 1) # Row(loaded[p][b], 2)

(* C15: the targets leave lines 385-412 as they entered whenever the       *)
(* criterion is not in training mode or neither a repeat count nor a ratio  *)
(* is configured; they are rewritten only in training mode with one of the  *)
(* two configured.                                                          *)
C15_AugmentOnlyInTraining ==
    \A p \in Procs : Augmented(p) =>
        /\ (~cfg.training \/ (cfg.repeat_label = None /\ cfg.repeat_ratio = None))
              => targets[p] = loaded[p]
        /\ targets[p] # loaded[p]
              => cfg.training /\ (cfg.repeat_label # None \/ cfg.repeat_ratio # None)

\* a criterion in eval mode with a repeat count of two passed an image with
\* instances on unchanged
C15_Witness ==
    \E p \in Procs :
        /\ Augmented(p) /\ ~cfg.training /\ cfg.repeat_label = Some(2)
        /\ \E b \in 1..Len(targets[p]) : Len(loaded[p][b].labels) > 0
        /\ targets[p] = loaded[p]

----------------------------------------------------------------------------
(* Start-up *)

\* no iteration has begun
NoStepRuns == \A p \in Procs : pc[p] = "idle" /\ step[p] = 0

(* C16: with both a repeat count and a repeat ratio given, the             *)
(* construction of the criterion fails: no criterion exists and no          *)
(* training step runs; with at most one of them given the construction      *)
(* succeeds.                                                                *)
C16_BothSetFailsAtConstruction ==
    LET both == main.args.repeat_label # None /\ main.args.repeat_ratio # None
    IN  /\ both => ~main.criterion /\ main.pc # "run" /\ NoStepRuns
        /\ (both /\ main.model) => main.pc = "failed"
        /\ (~both /\ main.model) => main.criterion /\ main.pc = "run"
        /\ ~main.criterion => NoStepRuns

\* build() has constructed the model and failed in SetCriterion.__init__
C16_Witness ==
    /\ main.args.repeat_label # None /\ main.args.repeat_ratio # None
    /\ main.pc = "failed" /\ main.model /\ ~main.criterion

(* C17: a command line that turns multi-scale RoI refinement off and asks  *)
(* for a number of feature levels other than 1 is rejected by main before   *)
(* the model is built and before any training or evaluation step.           *)
C17_FeatureLevelsRejected ==
    (main.args.ms_roi = FALSE /\ main.args.num_feature_levels # 1) =>
        /\ main.pc \in {"start", "failed"}
        /\ ~main.model /\ ~main.criterion
        /\ NoStepRuns

\* main has stopped at line 155: the check of line 153 passed
C17_Witness ==
    /\ main.args.ms_roi = FALSE /\ main.args.num_feature_levels = 3
    /\ main.args.frozen_weights = None
    /\ main.pc = "failed" /\ ~main.model

----------------------------------------------------------------------------
(* The boxes PostProcess returns *)

\* every coordinate of the center-size box c lies in [0, 1]
Normalized(c) == \A k \in 1..4 : c[k] >= 0 /\ c[k] <= GridOne
\* the corner box c, in half grid units times the image size, lies within
\* [0, img_w] x [0, img_h] for size = (img_h, img_w)
InsideImage(c, size) ==
    /\ 0 <= c[1] /\ c[1] <= 2 * GridOne * size[2]
    /\ 0 <= c[3] /\ c[3] <= 2 * GridOne * size[2]
    /\ 0 <= c[2] /\ c[2] <= 2 * GridOne * size[1]
    /\ 0 <= c[4] /\ c[4] <= 2 * GridOne * size[1]

(* C18: without suppression, when every coordinate of every input          *)
(* center-size box lies in [0, 1], every output box, converted to corners   *)
(* and scaled by the image width and height of target_sizes = (height,      *)
(* width), lies within [0, img_w] x [0, img_h].                             *)
C18_BoxesInsideImage ==
    (PostDone /\ ~pp.nms) => \A b \in Images :
        (\A k \in 1..pp.num_queries : Normalized(pp.out_bbox[b][k])) =>
            \A k \in 1..Len(pp.results[b].boxes) :
                InsideImage(pp.results[b].boxes[k], pp.target_sizes[b])

----------------------------------------------------------------------------
(* The assignment and the normaliser after the augmentation *)

\* process p holds an assignment of its current forward call
Matched(p) == pc[p] \in {"count", "all_reduce", "losses", "aux", "return"}
\* no value twice in the sequence s
NoRepeat(s) == \A a, c \in 1..Len(s) : a # c => s[a] # s[c]

(* C19: for an image with Q slots and n targets, n > Q included, the       *)
(* assignment the loss terms are given has exactly min(Q, n) pairs, no slot *)
(* index and no target index twice; for n = 0 it is empty.                  *)
C19_AssignmentIsBijection ==
    \A p \in Procs : Matched(p) =>
        /\ Len(indices[p]) = Len(targets[p])
        /\ \A b \in 1..Len(targets[p]) :
              LET n == Len(targets[p][b].labels)
                  src == indices[p][b][1]
                  tgt == indices[p][b][2]
              IN  /\ Len(src) = Min(cfg.num_queries, n)
                  /\ Len(tgt) = Min(cfg.num_queries, n)
                  /\ NoRepeat(src) /\ NoRepeat(tgt)
                  /\ Range(src) \subseteq 0..(cfg.num_queries - 1)
                  /\ Range(tgt) \subseteq 0..(n - 1)
                  /\ n = 0 => src = <<>> /\ tgt = <<>>

\* two instances repeated to four targets meet three slots: three pairs,
\* one target left out
C19_Witness ==
    \E p \in Procs :
        /\ pc[p] = "losses" /\ cfg.num_queries = 3 /\ cfg.repeat_label = Some(2)
        /\ Len(loaded[p][1].labels) = 2 /\ Len(targets[p][1].labels) = 4
        /\ Len(indices[p][1][1]) = 3
        /\ 0 \notin Range(indices[p][1][2])

\* the number of instances the augmentation leaves an image that was
\* loaded with n
AugmentedCount(n) ==
    IF ~cfg.training THEN n
    ELSE IF cfg.repeat_ratio # None
    THEN (IF n = 0 THEN 0
          ELSE Max(n, (Val(cfg.repeat_ratio)[1] * cfg.num_queries) \div Val(cfg.repeat_ratio)[2]))
    ELSE IF cfg.repeat_label # None THEN n * Val(cfg.repeat_label)
    ELSE n
\* the instances of the batch of process q after the augmentation
AugmentedTotal(q) ==
    SumSeq([b \in 1..Len(loaded[q]) |-> AugmentedCount(Len(loaded[q][b].labels))])

(* C20: num_boxes is computed after the augmentation: the count a process  *)
(* brings to the all-reduce is the count of its augmented targets,          *)
(* duplicates included, num_boxes is the clamped mean of these counts, and  *)
(* the matcher calls and box losses of every layer work on the targets      *)
(* that were counted.                                                       *)
C20_NormalizerCountsAugmented ==
    \A p \in Procs :
        /\ reduce_in[p] # None =>
              /\ Val(reduce_in[p]) = AugmentedTotal(p)
              /\ Val(reduce_in[p]) = SumSeq([b \in 1..Len(targets[p]) |-> Len(targets[p][b].labels)])
        /\ num_boxes[p] # None =>
              LET total == SumSeq([q \in Procs |-> AugmentedTotal(q)])
                  nb == Val(num_boxes[p])
              IN  IF total >= world_size
                  THEN nb[1] * world_size = total * nb[2]
                  ELSE nb = <<1, 1>>
        /\ box_losses[p] # <<>> =>
              /\ \A k \in 1..Len(calls[p]) :
                    \A b \in 1..Len(loaded[p]) :
                        Len(calls[p][k].targets[b].boxes) = AugmentedCount(Len(loaded[p][b].labels))
              /\ \A b \in 1..Len(loaded[p]) :
                    Len(indices[p][b][2]) =
                        Min(cfg.num_queries, AugmentedCount(Len(loaded[p][b].labels)))

\* two processes, one with an image of one instance augmented to three: it
\* has gone through both layers with num_boxes at least 3 / 2
C20_Witness ==
    \E p \in Procs :
        /\ world_size = 2 /\ pc[p] = "return" /\ Len(calls[p]) = 2
        /\ Len(loaded[p][1].labels) = 1 /\ Len(targets[p][1].labels) = 3
        /\ 2 * Val(num_boxes[p])[1] >= 3 * Val(num_boxes[p])[2]

----------------------------------------------------------------------------
(* A second call on augmented targets *)

\* process p is in a forward call of a later iteration
LaterCall(p) == step[p] >= 1 /\ pc[p] # "idle"

(* C21: a second call of SetCriterion.forward in training mode on targets  *)
(* it has augmented with the same ratio and Q adds no instance: every image *)
(* comes with no instance or at least f = floor(ratio * Q) of them, is      *)
(* skipped, and leaves the call as it entered.                              *)
C21_RatioIdempotent ==
    \A p \in Procs : (LaterCall(p) /\ RatioMode(p)) =>
        LET f == (Val(cfg.repeat_ratio)[1] * cfg.num_queries) \div Val(cfg.repeat_ratio)[2]
        IN  /\ \A b \in 1..Len(loaded[p]) :
                  Len(loaded[p][b].labels) = 0 \/ Len(loaded[p][b].labels) >= f
            /\ \A b \in 1..Len(targets[p]) :
                  /\ Len(targets[p][b].labels) = Len(loaded[p][b].labels)
                  /\ Len(targets[p][b].boxes) = Len(loaded[p][b].boxes)
            /\ targets[p] = loaded[p]

\* the second call has passed the augmentation with an image that the
\* first call took from two instances to three
C21_Witness ==
    \E p \in Procs :
        /\ LaterCall(p) /\ Augmented(p) /\ RatioMode(p)
        /\ "repeat" \in DOMAIN loaded[p][1]
        /\ Len(loaded[p][1].repeat) = 2
        /\ Len(loaded[p][1].labels) = 3
        /\ Len(targets[p][1].labels) = 3

----------------------------------------------------------------------------
(* The weights of the bundle *)

\* the keys of bundle that are differentiable terms: all but class_error
\* and the cardinality errors
Differentiable(bundle) ==
    {k \in DOMAIN bundle : bundle[k].term \notin {"class_error", "cardinality_error"}}
\* the keys of mask terms under the suffix of an auxiliary layer 0 .. n-1
AuxMaskKeys(n) == {Suffixed(k, i) : k \in {"loss_mask", "loss_dice"}, i \in 0..(n - 1)}
\* the keys that name a class_error or a cardinality error of some layer
ErrorKeys(n) ==
    {"class_error", "cardinality_error"}
    \cup {Suffixed(k, i) : k \in {"class_error", "cardinality_error"}, i \in 0..(n - 1)}

\* C22 as stated: the weight dictionary has a weight for exactly the
\* differentiable terms of the bundle forward returns, the mask terms only
\* under the last layer's names.
C22_WeightsExactlyProduced ==
    \A p \in Procs : pc[p] = "return" =>
        DOMAIN main.weight_dict = Differentiable(losses[p])

\* C22, amended: every differentiable term of the bundle forward returns has
\* a weight, no class_error and no cardinality error has one, and the only
\* weights without a term are those of the mask terms under the suffixes of
\* the auxiliary layers 0 .. dec_layers-2, present when masks and auxiliary
\* losses are both on.
C22_WeightsCoverProduced ==
    \A p \in Procs : pc[p] = "return" =>
        /\ Differentiable(losses[p]) \subseteq DOMAIN main.weight_dict
        /\ DOMAIN main.weight_dict \cap ErrorKeys(cfg.dec_layers) = {}
        /\ DOMAIN main.weight_dict \ Differentiable(losses[p]) =
              IF cfg.masks /\ cfg.aux_loss THEN AuxMaskKeys(cfg.dec_layers - 1) ELSE {}

\* masks and two auxiliary layers: loss_ce_1 has a term and a weight,
\* loss_mask_0 a weight and no term
C22_Witness ==
    \E p \in Procs :
        /\ pc[p] = "return" /\ cfg.masks /\ cfg.aux_loss /\ cfg.dec_layers = 3
        /\ "loss_ce_1" \in DOMAIN losses[p] \cap DOMAIN main.weight_dict
        /\ "loss_mask_0" \in DOMAIN main.weight_dict \ DOMAIN losses[p]

----------------------------------------------------------------------------
(* The dump files *)

\* process p is inside SetCriterion.store_results
InCritStore(p) == pc[p] \in {"c_read", "c_open", "c_dump"}

(* C23: in one process whose every DETR.forward is followed by exactly one *)
(* SetCriterion.forward on the targets of the same batch, the two counters  *)
(* are equal after every such pair, the criterion opens only files the      *)
(* model has written, each file is named by the counter of its writer, and  *)
(* each file receives the ground truth of the image whose features it       *)
(* holds.                                                                   *)
C23_CountersInStep ==
    \A p \in Procs :
        /\ pc[p] = "idle" =>
              /\ model_cnt[p] = crit_cnt[p]
              /\ model_cnt[p] = step[p] * cfg.batch_size
        /\ InCritStore(p) =>
              /\ crit_cnt[p] < model_cnt[p]
              /\ crit_cnt[p] = step[p] * cfg.batch_size + img[p]
        /\ pc[p] = "c_read" =>
              /\ IsJson(files[cwd[p]][crit_cnt[p]])
              /\ Load(files[cwd[p]][crit_cnt[p]]).feature = Rows(<<p, step[p], img[p] + 1>>)
              /\ Load(files[cwd[p]][crit_cnt[p]]).gt = None
        /\ \A n \in FileNos :
              /\ n >= model_cnt[p] /\ files[cwd[p]][n] # Absent =>
                    pc[p] = "m_dump" /\ n = model_cnt[p]
              /\ (IsJson(files[cwd[p]][n]) /\ Load(files[cwd[p]][n]).gt # None) =>
                    /\ n < crit_cnt[p]
                    /\ Rows(Val(Load(files[cwd[p]][n]).gt).image_id) = Load(files[cwd[p]][n]).feature
                    /\ Load(files[cwd[p]][n]).feature =
                          Rows(<<p, n \div cfg.batch_size, (n % cfg.batch_size) + 1>>)

\* two pairs of calls are over: the counters stand at twice the batch size
\* and the last file of the second batch has its ground truth
C23_Witness ==
    \E p \in Procs :
        /\ pc[p] = "idle" /\ step[p] = 2
        /\ model_cnt[p] = 2 * BatchSize /\ crit_cnt[p] = 2 * BatchSize
        /\ IsJson(files[cwd[p]][2 * BatchSize - 1])
        /\ Load(files[cwd[p]][2 * BatchSize - 1]).gt # None
        /\ Val(Load(files[cwd[p]][2 * BatchSize - 1]).gt).image_id = <<p, 1, BatchSize>>

\* process p has opened the file numbered n for writing in DETR.store_results
ModelWrote(p, n) == n < model_cnt[p] \/ (n = model_cnt[p] /\ pc[p] = "m_dump")

(* C24: in a data-parallel run the dump files of a process stay its own:   *)
(* no file one process's DETR.forward or SetCriterion.forward has written   *)
(* is overwritten or read by another process, so that the all-reduce is     *)
(* the only point where the processes affect one another.                   *)
C24_DumpFilesPrivate ==
    /\ \A p, q \in Procs : (p # q /\ cwd[p] = cwd[q]) =>
          \A n \in FileNos : ~(ModelWrote(p, n) /\ ModelWrote(q, n))
    /\ \A p \in Procs :
          json_data[p].st = "json" =>
              \A k \in 1..MaxWrites : json_data[p].feature[k][1] = p
    /\ \A dir \in DOMAIN files, n \in FileNos :
          (IsJson(files[dir][n]) /\ Load(files[dir][n]).gt # None) =>
              \A k \in 1..MaxWrites :
                  Val(Load(files[dir][n]).gt).image_id[1] = Load(files[dir][n]).feature[k][1]

====
